---- MODULE Spec2Model ----
(***************************************************************************)
(* CRYPTO1 stream cipher of the MIFARE Classic emulation: the byte-split   *)
(* engine with one process-wide State (mf1_crypto1.c) and the packed       *)
(* engine over a caller-owned struct Crypto1State (crypto1.c, crapto1.h).  *)
(*                                                                         *)
(* Integers of the C code are modelled with their width: a uint8_t is a    *)
(* number in 0..255, a 24-bit register half of the byte-split engine is    *)
(* the tuple <<b0, b1, b2>> of its three bytes (b0 = Even[0] / Odd[0]),    *)
(* and a uint32_t / uint64_t is the tuple of its bytes, least significant  *)
(* byte first, because TLC's integers are 32-bit signed.                   *)
(***************************************************************************)
EXTENDS Integers, Sequences, FiniteSets, TLC

----------------------------------------------------------------------------
(* C operators on uint8_t *)

Byte == 0..255

BIT(x, n) == (x \div (2 ^ n)) % 2

Nib == 0..15

NibAnd == [a \in Nib |-> [b \in Nib |->
              BIT(a, 0) * BIT(b, 0) + 2 * (BIT(a, 1) * BIT(b, 1))
              + 4 * (BIT(a, 2) * BIT(b, 2)) + 8 * (BIT(a, 3) * BIT(b, 3))]]

NibXor == [a \in Nib |-> [b \in Nib |->
              ((BIT(a, 0) + BIT(b, 0)) % 2) + 2 * ((BIT(a, 1) + BIT(b, 1)) % 2)
              + 4 * ((BIT(a, 2) + BIT(b, 2)) % 2) + 8 * ((BIT(a, 3) + BIT(b, 3)) % 2)]]

AndTab == [a \in Byte |-> [b \in Byte |->
              NibAnd[(a % 16)][(b % 16)] + 16 * NibAnd[a \div 16][b \div 16]]]

XorTab == [a \in Byte |-> [b \in Byte |->
              NibXor[(a % 16)][(b % 16)] + 16 * NibXor[a \div 16][b \div 16]]]

NibOr == [a \in Nib |-> [b \in Nib |-> NibXor[a][b] + NibAnd[a][b]]]

OrTab == [a \in Byte |-> [b \in Byte |->
             NibOr[(a % 16)][(b % 16)] + 16 * NibOr[a \div 16][b \div 16]]]

AND8(a, b) == AndTab[a][b]

OR8(a, b) == OrTab[a][b]

XOR8(a, b) == XorTab[a][b]

(* (uint8_t)(x << n) and x >> n for a uint8_t x *)
SHL8(x, n) == (x * (2 ^ n)) % 256

SHR8(x, n) == x \div (2 ^ n)

(* A C variable holds a value computed once: F applied to the value of e *)
Val(F(_), e) == CHOOSE y \in { F(x) : x \in {e} } : TRUE

(* for (i = from; i < to; i++) acc = Body(acc, i); the passes from i to to *)
(* are the passes of the first half followed by those of the second, which *)
(* keeps the depth of the evaluation logarithmic in their number           *)
RECURSIVE Loop(_, _, _, _)
Loop(Body(_, _), acc, i, to) ==
    IF i >= to THEN acc
    ELSE IF i + 1 = to THEN Val(LAMBDA a : Body(a, i), acc)
    ELSE Val(LAMBDA a : Loop(Body, a, (i + to) \div 2, to),
             Loop(Body, acc, i, (i + to) \div 2))

----------------------------------------------------------------------------
(* mf1_crypto1.c: constants, macros and tables *)

NONCE_SIZE == 4

LFSR_MASK_EVEN == <<225, 16, 32>>    \* 0x2010E1, bytes >> 0, >> 8, >> 16

LFSR_MASK_ODD == <<148, 115, 58>>    \* 0x3A7394, bytes >> 0, >> 8, >> 16

FC(x4, x3, x2, x1, x0) ==
    XOR8(OR8(x0, AND8(OR8(x1, x4), XOR8(x3, x4))),
         AND8(XOR8(x0, AND8(x1, x3)), OR8(XOR8(x2, x3), AND8(x1, x4))))

(* __even/__odd take the even/odd numbered bits of __byte, each shifted in at bit 7 *)
SplitStep(p) ==
    [even |-> OR8(SHR8(p.even, 1), SHL8(AND8(p.byte, 1), 7)),
     odd  |-> OR8(SHR8(p.odd, 1), SHL8(AND8(SHR8(p.byte, 1), 1), 7)),
     byte |-> SHR8(p.byte, 2)]

SPLIT_BYTE(even, odd, byte) ==
    Loop(LAMBDA p, k : SplitStep(p), [even |-> even, odd |-> odd, byte |-> byte], 0, 4)

SHIFT24(b, in) ==
    << OR8(SHR8(b[1], 1), SHL8(b[2], 7)),
       OR8(SHR8(b[2], 1), SHL8(b[3], 7)),
       OR8(SHR8(b[3], 1), SHL8(AND8(in, 1), 7)) >>

(* A faulty SHIFT24_COND_DECRYPT that folds the stream bit in whatever     *)
(* the flag says; C7 has to tell it from the macro.                        *)
SHIFT24_ALWAYS_DECRYPT(b, in, stream, decrypt) ==
    <<OR8(SHR8(b[1], 1), SHL8(b[2], 7)),
      OR8(SHR8(b[2], 1), SHL8(b[3], 7)),
      OR8(SHR8(b[3], 1), SHL8(XOR8(in, AND8(stream, 1)), 7))>>

SHIFT24_COND_DECRYPT(b, in, stream, decrypt) ==
    << OR8(SHR8(b[1], 1), SHL8(b[2], 7)),
       OR8(SHR8(b[2], 1), SHL8(b[3], 7)),
       OR8(SHR8(b[3], 1), SHL8(XOR8(in, AND8(AND8(stream, 1), decrypt)), 7)) >>

SHIFT8(byte, in) == OR8(SHR8(byte, 1), SHL8(AND8(in, 1), 7))

abFilterTable ==
    << (* for Odd[0] *)
       <<
        0, 0, 0, 0, 0, 0, 0, 0, 0, 0, 0, 0, 0, 0, 0, 0,
        1, 1, 1, 1, 1, 1, 1, 1, 1, 1, 1, 1, 1, 1, 1, 1,
        1, 1, 1, 1, 1, 1, 1, 1, 1, 1, 1, 1, 1, 1, 1, 1,
        1, 1, 1, 1, 1, 1, 1, 1, 1, 1, 1, 1, 1, 1, 1, 1,
        0, 0, 0, 0, 0, 0, 0, 0, 0, 0, 0, 0, 0, 0, 0, 0,
        0, 0, 0, 0, 0, 0, 0, 0, 0, 0, 0, 0, 0, 0, 0, 0,
        0, 0, 0, 0, 0, 0, 0, 0, 0, 0, 0, 0, 0, 0, 0, 0,
        1, 1, 1, 1, 1, 1, 1, 1, 1, 1, 1, 1, 1, 1, 1, 1,
        0, 0, 0, 0, 0, 0, 0, 0, 0, 0, 0, 0, 0, 0, 0, 0,
        0, 0, 0, 0, 0, 0, 0, 0, 0, 0, 0, 0, 0, 0, 0, 0,
        1, 1, 1, 1, 1, 1, 1, 1, 1, 1, 1, 1, 1, 1, 1, 1,
        0, 0, 0, 0, 0, 0, 0, 0, 0, 0, 0, 0, 0, 0, 0, 0,
        1, 1, 1, 1, 1, 1, 1, 1, 1, 1, 1, 1, 1, 1, 1, 1,
        1, 1, 1, 1, 1, 1, 1, 1, 1, 1, 1, 1, 1, 1, 1, 1,
        0, 0, 0, 0, 0, 0, 0, 0, 0, 0, 0, 0, 0, 0, 0, 0,
        1, 1, 1, 1, 1, 1, 1, 1, 1, 1, 1, 1, 1, 1, 1, 1 >>,
       (* for Odd[1] *)
       <<
        0, 0, 0, 2, 2, 0, 0, 2, 0, 2, 2, 2, 2, 0, 0, 2,
        0, 0, 0, 2, 2, 0, 0, 2, 0, 2, 2, 2, 2, 0, 0, 2,
        0, 0, 0, 2, 2, 0, 0, 2, 0, 2, 2, 2, 2, 0, 0, 2,
        4, 4, 4, 6, 6, 4, 4, 6, 4, 6, 6, 6, 6, 4, 4, 6,
        4, 4, 4, 6, 6, 4, 4, 6, 4, 6, 6, 6, 6, 4, 4, 6,
        0, 0, 0, 2, 2, 0, 0, 2, 0, 2, 2, 2, 2, 0, 0, 2,
        0, 0, 0, 2, 2, 0, 0, 2, 0, 2, 2, 2, 2, 0, 0, 2,
        4, 4, 4, 6, 6, 4, 4, 6, 4, 6, 6, 6, 6, 4, 4, 6,
        0, 0, 0, 2, 2, 0, 0, 2, 0, 2, 2, 2, 2, 0, 0, 2,
        4, 4, 4, 6, 6, 4, 4, 6, 4, 6, 6, 6, 6, 4, 4, 6,
        4, 4, 4, 6, 6, 4, 4, 6, 4, 6, 6, 6, 6, 4, 4, 6,
        4, 4, 4, 6, 6, 4, 4, 6, 4, 6, 6, 6, 6, 4, 4, 6,
        4, 4, 4, 6, 6, 4, 4, 6, 4, 6, 6, 6, 6, 4, 4, 6,
        0, 0, 0, 2, 2, 0, 0, 2, 0, 2, 2, 2, 2, 0, 0, 2,
        0, 0, 0, 2, 2, 0, 0, 2, 0, 2, 2, 2, 2, 0, 0, 2,
        4, 4, 4, 6, 6, 4, 4, 6, 4, 6, 6, 6, 6, 4, 4, 6 >>,
       (* for Odd[2] *)
       <<
        0, 8, 8, 8, 0, 0, 0, 8, 0, 0, 8, 0, 8, 8, 0, 8,
        0, 8, 8, 8, 0, 0, 0, 8, 0, 0, 8, 0, 8, 8, 0, 8,
        0, 8, 8, 8, 0, 0, 0, 8, 0, 0, 8, 0, 8, 8, 0, 8,
        16, 24, 24, 24, 16, 16, 16, 24, 16, 16, 24, 16, 24, 24, 16, 24,
        16, 24, 24, 24, 16, 16, 16, 24, 16, 16, 24, 16, 24, 24, 16, 24,
        0, 8, 8, 8, 0, 0, 0, 8, 0, 0, 8, 0, 8, 8, 0, 8,
        0, 8, 8, 8, 0, 0, 0, 8, 0, 0, 8, 0, 8, 8, 0, 8,
        16, 24, 24, 24, 16, 16, 16, 24, 16, 16, 24, 16, 24, 24, 16, 24,
        0, 8, 8, 8, 0, 0, 0, 8, 0, 0, 8, 0, 8, 8, 0, 8,
        16, 24, 24, 24, 16, 16, 16, 24, 16, 16, 24, 16, 24, 24, 16, 24,
        16, 24, 24, 24, 16, 16, 16, 24, 16, 16, 24, 16, 24, 24, 16, 24,
        16, 24, 24, 24, 16, 16, 16, 24, 16, 16, 24, 16, 24, 24, 16, 24,
        16, 24, 24, 24, 16, 16, 16, 24, 16, 16, 24, 16, 24, 24, 16, 24,
        0, 8, 8, 8, 0, 0, 0, 8, 0, 0, 8, 0, 8, 8, 0, 8,
        0, 8, 8, 8, 0, 0, 0, 8, 0, 0, 8, 0, 8, 8, 0, 8,
        16, 24, 24, 24, 16, 16, 16, 24, 16, 16, 24, 16, 24, 24, 16, 24 >> >>

TableC0 == [i \in 0..31 |-> FC(BIT(i, 4), BIT(i, 3), BIT(i, 2), BIT(i, 1), BIT(i, 0))]

TableC7 == [i \in 0..31 |-> SHL8(FC(BIT(i, 4), BIT(i, 3), BIT(i, 2), BIT(i, 1), BIT(i, 0)), 7)]

TableC3 == [i \in 0..31 |-> SHL8(FC(BIT(i, 4), BIT(i, 3), BIT(i, 2), BIT(i, 1), BIT(i, 0)), 3)]

(* A faulty index that looks the bytes of the half up in each other's      *)
(* tables; C19 has to tell it from FilterIndex.                            *)
FilterIndexTablesSwapped(O) ==
    OR8(OR8(abFilterTable[1][O[3] + 1], abFilterTable[2][O[2] + 1]), abFilterTable[3][O[1] + 1])

(* the 5-bit index the three per-byte tables compose for a 24-bit half O *)
FilterIndex(O) ==
    OR8(OR8(abFilterTable[1][O[1] + 1], abFilterTable[2][O[2] + 1]), abFilterTable[3][O[3] + 1])

CRYPTO1_FILTER_OUTPUT_B7_24(O) == TableC7[FilterIndex(O)]

CRYPTO1_FILTER_OUTPUT_B3_24(O) == TableC3[FilterIndex(O)]

CRYPTO1_FILTER_OUTPUT_B0_24(O) == TableC0[FilterIndex(O)]

(* parity.h: OddByteParity[x] is 1 when x has an even number of 1-bits *)
OddByteParity ==
    [x \in Byte |->
        1 - ((BIT(x, 0) + BIT(x, 1) + BIT(x, 2) + BIT(x, 3)
              + BIT(x, 4) + BIT(x, 5) + BIT(x, 6) + BIT(x, 7)) % 2)]

oddparity8(x) == OddByteParity[x]

----------------------------------------------------------------------------
(* mf1_crypto1.c: the byte-split engine.  A register set is a record       *)
(* [Even |-> <<E0, E1, E2>>, Odd |-> <<O0, O1, O2>>].                      *)

ZeroHalf == <<0, 0, 0>>

ZeroState == [Even |-> ZeroHalf, Odd |-> ZeroHalf]

FoldSwap(F) == XOR8(F, OR8(SHR8(F, 4), SHL8(F, 4)))

FoldShift(F, n) == XOR8(F, SHR8(F, n))

FoldFeedback(F0) ==
    Val(LAMBDA F1 : Val(LAMBDA F2 : FoldShift(F2, 1), FoldShift(F1, 2)), FoldSwap(F0))

Crypto1LFSRbyteFeedback(E, O) ==
    LET F0 == XOR8(XOR8(XOR8(XOR8(XOR8(AND8(E[1], LFSR_MASK_EVEN[1]),
                                       AND8(E[2], LFSR_MASK_EVEN[2])),
                                  AND8(E[3], LFSR_MASK_EVEN[3])),
                             AND8(O[1], LFSR_MASK_ODD[1])),
                        AND8(O[2], LFSR_MASK_ODD[2])),
                   AND8(O[3], LFSR_MASK_ODD[3]))
    IN  AND8(FoldFeedback(F0), 1)

(* A faulty Crypto1LFSR that shifts the feedback in without In; C27 has to *)
(* tell it from Crypto1LFSR.                                               *)
Crypto1LFSRWithoutIn(S, In) ==
    [Even |-> S.Odd, Odd |-> SHIFT24(S.Even, Crypto1LFSRbyteFeedback(S.Even, S.Odd))]

Crypto1LFSR(S, In) ==
    LET Temp == S.Even
        F0 == XOR8(XOR8(XOR8(XOR8(XOR8(AND8(Temp[1], LFSR_MASK_EVEN[1]),
                                       AND8(Temp[2], LFSR_MASK_EVEN[2])),
                                  AND8(Temp[3], LFSR_MASK_EVEN[3])),
                             AND8(S.Odd[1], LFSR_MASK_ODD[1])),
                        AND8(S.Odd[2], LFSR_MASK_ODD[2])),
                   AND8(S.Odd[3], LFSR_MASK_ODD[3]))
        Feedback == AND8(FoldFeedback(F0), 1)
    IN  [Even |-> S.Odd, Odd |-> SHIFT24(Temp, XOR8(Feedback, In))]

(* a uint8_t * argument: NULL, or the three bytes it points to *)
NullPointer == [null |-> TRUE, bytes |-> <<>>]

PointerTo(b) == [null |-> FALSE, bytes |-> b]

(* A faulty Crypto1GetState that copies only when both pointers are given; *)
(* C29 has to tell it from Crypto1GetState.                                *)
Crypto1GetStateBothOrNone(S, pEven, pOdd) ==
    [State |-> S,
     pEven |-> IF ~pEven.null /\ ~pOdd.null THEN PointerTo(S.Even) ELSE pEven,
     pOdd |-> IF ~pEven.null /\ ~pOdd.null THEN PointerTo(S.Odd) ELSE pOdd]

(* if (pEven) { pEven[0..2] = State.Even[0..2]; } if (pOdd) { ... } *)
Crypto1GetState(S, pEven, pOdd) ==
    [State |-> S,
     pEven |-> IF ~pEven.null THEN PointerTo(S.Even) ELSE pEven,
     pOdd |-> IF ~pOdd.null THEN PointerTo(S.Odd) ELSE pOdd]

Crypto1FilterOutput(S) == CRYPTO1_FILTER_OUTPUT_B0_24(S.Odd)

(* Key loading shared by Crypto1Setup and Crypto1SetupNested (six SPLIT_BYTE) *)
LoadPair(k0, k1) ==
    Val(LAMBDA a : SPLIT_BYTE(a.even, a.odd, k1), SPLIT_BYTE(0, 0, k0))

(* A faulty key load with the two halves exchanged; C9 has to tell it      *)
(* from LoadKey.                                                           *)
LoadKeyHalvesSwapped(Key) ==
    Val(LAMBDA b : Val(LAMBDA d : Val(LAMBDA f :
            [Even |-> <<b.odd, d.odd, f.odd>>, Odd |-> <<b.even, d.even, f.even>>],
        LoadPair(Key[5], Key[6])), LoadPair(Key[3], Key[4])), LoadPair(Key[1], Key[2]))

LoadKey(Key) ==
    Val(LAMBDA b : Val(LAMBDA d : Val(LAMBDA f :
            [Even |-> <<b.even, d.even, f.even>>, Odd |-> <<b.odd, d.odd, f.odd>>],
        LoadPair(Key[5], Key[6])), LoadPair(Key[3], Key[4])), LoadPair(Key[1], Key[2]))

(* one pass of the inner loop of Crypto1Setup; r = [Even, Odd, KeyStream, In] *)
SetupBit(r, bit) ==
    LET odd == (bit % 2) = 1
        Out == IF odd THEN CRYPTO1_FILTER_OUTPUT_B0_24(r.Even)
                      ELSE CRYPTO1_FILTER_OUTPUT_B0_24(r.Odd)
        Fb0 == IF odd THEN Crypto1LFSRbyteFeedback(r.Odd, r.Even)
                      ELSE Crypto1LFSRbyteFeedback(r.Even, r.Odd)
        Feedback == XOR8(Fb0, AND8(r.In, 1))
    IN  [Even      |-> IF odd THEN r.Even ELSE SHIFT24(r.Even, Feedback),
         Odd       |-> IF odd THEN SHIFT24(r.Odd, Feedback) ELSE r.Odd,
         KeyStream |-> SHIFT8(r.KeyStream, Out),
         In        |-> SHR8(r.In, 1)]

(* one pass of the outer loop of Crypto1Setup; a = [Even, Odd, CardNonce] *)
SetupByte(a, Uid, ByteCount) ==
    Val(LAMBDA r :
            [Even |-> r.Even, Odd |-> r.Odd,
             CardNonce |-> [a.CardNonce EXCEPT ![ByteCount + 1] = XOR8(@, r.KeyStream)]],
        Loop(SetupBit,
             [Even |-> a.Even, Odd |-> a.Odd, KeyStream |-> 0,
              In |-> XOR8(a.CardNonce[ByteCount + 1], Uid[ByteCount + 1])], 0, 8))

Crypto1Setup(Key, Uid, CardNonce) ==
    Val(LAMBDA a : [State |-> [Even |-> a.Even, Odd |-> a.Odd], CardNonce |-> a.CardNonce],
        Val(LAMBDA k : Loop(LAMBDA a, ByteCount : SetupByte(a, Uid, ByteCount),
                            [Even |-> k.Even, Odd |-> k.Odd, CardNonce |-> CardNonce],
                            0, NONCE_SIZE),
            LoadKey(Key)))

(* one pass of the inner loop of Crypto1SetupNested;                       *)
(* r = [Even, Odd, KeyStream, In, Out]                                     *)
NestedBit(r, bit, Decrypt) ==
    LET odd == (bit % 2) = 1
        Out == IF bit = 0 THEN r.Out
               ELSE IF odd THEN CRYPTO1_FILTER_OUTPUT_B7_24(r.Even)
                           ELSE CRYPTO1_FILTER_OUTPUT_B7_24(r.Odd)
        KeyStream == IF bit = 0 THEN SHIFT8(r.KeyStream, r.Out)
                     ELSE OR8(SHR8(r.KeyStream, 1), Out)
        Fb0 == IF odd THEN Crypto1LFSRbyteFeedback(r.Odd, r.Even)
                      ELSE Crypto1LFSRbyteFeedback(r.Even, r.Odd)
        Feedback == XOR8(Fb0, AND8(r.In, 1))
    IN  [Even      |-> IF odd THEN r.Even
                       ELSE SHIFT24_COND_DECRYPT(r.Even, Feedback, Out, Decrypt),
         Odd       |-> IF odd THEN SHIFT24_COND_DECRYPT(r.Odd, Feedback, Out, Decrypt)
                       ELSE r.Odd,
         KeyStream |-> KeyStream,
         In        |-> SHR8(r.In, 1),
         Out       |-> Out]

(* A faulty parity byte with the keystream bit inverted; C8 has to tell it *)
(* from NestedParity.                                                      *)
NestedParityInverted(CardNonceByte, Odd) ==
    XOR8(oddparity8(CardNonceByte), 1 - CRYPTO1_FILTER_OUTPUT_B0_24(Odd))

(* the encrypted parity byte: the statements after the inner loop, before the XOR *)
NestedParity(CardNonceByte, Odd) ==
    XOR8(oddparity8(CardNonceByte), CRYPTO1_FILTER_OUTPUT_B0_24(Odd))

(* one pass of the outer loop of Crypto1SetupNested;                       *)
(* a = [Even, Odd, Out, CardNonce, NonceParity, Boundary], where Boundary  *)
(* is a history of the registers at the end of each inner loop             *)
NestedByte(a, Uid, Decrypt, ByteCount) ==
    Val(LAMBDA r :
            [Even |-> r.Even, Odd |-> r.Odd,
             Out |-> CRYPTO1_FILTER_OUTPUT_B0_24(r.Odd),
             CardNonce |-> [a.CardNonce EXCEPT ![ByteCount + 1] = XOR8(@, r.KeyStream)],
             NonceParity |-> [a.NonceParity EXCEPT ![ByteCount + 1] =
                                 NestedParity(a.CardNonce[ByteCount + 1], r.Odd)],
             Boundary |-> Append(a.Boundary, [Even |-> r.Even, Odd |-> r.Odd])],
        Loop(LAMBDA q, bit : NestedBit(q, bit, Decrypt),
             [Even |-> a.Even, Odd |-> a.Odd, KeyStream |-> 0,
              In |-> XOR8(a.CardNonce[ByteCount + 1], Uid[ByteCount + 1]),
              Out |-> a.Out], 0, 8))

(* Decrypt is the bool as the integer C promotes it to (0 or 1); the       *)
(* NonceParity buffer holds OldParity before the call                      *)
Crypto1SetupNested(Key, Uid, CardNonce, OldParity, Decrypt) ==
    Val(LAMBDA a : [State |-> [Even |-> a.Even, Odd |-> a.Odd], CardNonce |-> a.CardNonce,
                    NonceParity |-> a.NonceParity, Boundary |-> a.Boundary],
        Val(LAMBDA k : Loop(LAMBDA a, ByteCount : NestedByte(a, Uid, Decrypt, ByteCount),
                            [Even |-> k.Even, Odd |-> k.Odd,
                             Out |-> CRYPTO1_FILTER_OUTPUT_B0_24(k.Odd),
                             CardNonce |-> CardNonce, NonceParity |-> OldParity,
                             Boundary |-> <<>>],
                            0, NONCE_SIZE),
            LoadKey(Key)))

(* Feedback ^= Feedback ^ (In & 1) *)
AuthFeedback(Feedback, In) == XOR8(Feedback, XOR8(Feedback, AND8(In, 1)))

(* one pass of the inner loop of Crypto1Auth; r = [Even, Odd, In] *)
AuthBit(r, bit) ==
    LET odd == (bit % 2) = 1
        Fb0 == IF odd THEN Crypto1LFSRbyteFeedback(r.Odd, r.Even)
                      ELSE Crypto1LFSRbyteFeedback(r.Even, r.Odd)
        Feedback == AuthFeedback(Fb0, r.In)
    IN  [Even |-> IF odd THEN r.Even ELSE SHIFT24(r.Even, Feedback),
         Odd  |-> IF odd THEN SHIFT24(r.Odd, Feedback) ELSE r.Odd,
         In   |-> SHR8(r.In, 1)]

(* one pass of the outer loop of Crypto1Auth *)
AuthByte(S, EncryptedReaderNonce, i) ==
    Val(LAMBDA r : [Even |-> r.Even, Odd |-> r.Odd],
        Loop(AuthBit, [Even |-> S.Even, Odd |-> S.Odd, In |-> EncryptedReaderNonce[i + 1]],
             0, 8))

Crypto1Auth(S, EncryptedReaderNonce) ==
    [State |-> Loop(LAMBDA T, i : AuthByte(T, EncryptedReaderNonce, i), S, 0, NONCE_SIZE),
     EncryptedReaderNonce |-> EncryptedReaderNonce]

(* one pass of the loop of Crypto1Nibble; r = [Even, Odd, KeyStream] *)
NibbleBit(r, i) ==
    LET odd == (i % 2) = 1
        Feedback == IF odd THEN Crypto1LFSRbyteFeedback(r.Odd, r.Even)
                           ELSE Crypto1LFSRbyteFeedback(r.Even, r.Odd)
        Even == IF odd THEN r.Even ELSE SHIFT24(r.Even, Feedback)
        Odd  == IF odd THEN SHIFT24(r.Odd, Feedback) ELSE r.Odd
        Out  == IF odd THEN CRYPTO1_FILTER_OUTPUT_B3_24(Even)
                       ELSE CRYPTO1_FILTER_OUTPUT_B3_24(Odd)
    IN  [Even |-> Even, Odd |-> Odd,
         KeyStream |-> IF i < 3 THEN OR8(SHR8(r.KeyStream, 1), Out) ELSE r.KeyStream]

Crypto1Nibble(S) ==
    Val(LAMBDA r : [State |-> [Even |-> r.Even, Odd |-> r.Odd], ret |-> r.KeyStream],
        Loop(NibbleBit, [Even |-> S.Even, Odd |-> S.Odd,
                         KeyStream |-> CRYPTO1_FILTER_OUTPUT_B3_24(S.Odd)], 0, 4))

(* A faulty pass of the loop of Crypto1Byte that assembles the keystream   *)
(* most significant bit first; C10 has to tell it from ByteBit.            *)
ByteBitMsbFirst(r, i) ==
    LET odd == (i % 2) = 1
        Feedback == IF odd THEN Crypto1LFSRbyteFeedback(r.Odd, r.Even)
                           ELSE Crypto1LFSRbyteFeedback(r.Even, r.Odd)
        Even == IF odd THEN r.Even ELSE SHIFT24(r.Even, Feedback)
        Odd  == IF odd THEN SHIFT24(r.Odd, Feedback) ELSE r.Odd
    IN  [Even |-> Even, Odd |-> Odd,
         KeyStream |-> IF odd
                       THEN OR8(SHL8(r.KeyStream, 1), CRYPTO1_FILTER_OUTPUT_B0_24(Even))
                       ELSE IF i > 0
                            THEN OR8(SHL8(r.KeyStream, 1), CRYPTO1_FILTER_OUTPUT_B0_24(Odd))
                            ELSE r.KeyStream]

(* one pass of the loop of Crypto1Byte; r = [Even, Odd, KeyStream] *)
ByteBit(r, i) ==
    LET odd == (i % 2) = 1
        Feedback == IF odd THEN Crypto1LFSRbyteFeedback(r.Odd, r.Even)
                           ELSE Crypto1LFSRbyteFeedback(r.Even, r.Odd)
        Even == IF odd THEN r.Even ELSE SHIFT24(r.Even, Feedback)
        Odd  == IF odd THEN SHIFT24(r.Odd, Feedback) ELSE r.Odd
    IN  [Even |-> Even, Odd |-> Odd,
         KeyStream |-> IF odd
                       THEN OR8(SHR8(r.KeyStream, 1), CRYPTO1_FILTER_OUTPUT_B7_24(Even))
                       ELSE IF i > 0
                            THEN OR8(SHR8(r.KeyStream, 1), CRYPTO1_FILTER_OUTPUT_B7_24(Odd))
                            ELSE r.KeyStream]

Crypto1Byte(S) ==
    Val(LAMBDA r : [State |-> [Even |-> r.Even, Odd |-> r.Odd], ret |-> r.KeyStream],
        Loop(ByteBit, [Even |-> S.Even, Odd |-> S.Odd,
                       KeyStream |-> CRYPTO1_FILTER_OUTPUT_B7_24(S.Odd)], 0, 8))

(* one pass of the loop of Crypto1ByteArray; a = [State, Buffer], i the bytes done *)
ByteArrayStep(a, i) ==
    Val(LAMBDA b : [State |-> b.State, Buffer |-> [a.Buffer EXCEPT ![i + 1] = XOR8(@, b.ret)]],
        Crypto1Byte(a.State))

Crypto1ByteArray(S, Buffer, Count) ==
    Loop(ByteArrayStep, [State |-> S, Buffer |-> Buffer], 0, Count)

(* one pass of the inner loop of Crypto1ByteArrayWithParity;               *)
(* r = [Even, Odd, KeyStream, Out]                                         *)
ParityBit(r, bit) ==
    LET odd == (bit % 2) = 1
        Feedback == IF odd THEN Crypto1LFSRbyteFeedback(r.Odd, r.Even)
                           ELSE Crypto1LFSRbyteFeedback(r.Even, r.Odd)
        Even == IF odd THEN r.Even ELSE SHIFT24(r.Even, Feedback)
        Odd  == IF odd THEN SHIFT24(r.Odd, Feedback) ELSE r.Odd
        take == IF odd THEN bit < 7 ELSE bit > 0
        Out  == IF ~take THEN r.Out
                ELSE IF odd THEN CRYPTO1_FILTER_OUTPUT_B7_24(Even)
                            ELSE CRYPTO1_FILTER_OUTPUT_B7_24(Odd)
    IN  [Even |-> Even, Odd |-> Odd,
         KeyStream |-> IF take THEN OR8(SHR8(r.KeyStream, 1), Out) ELSE r.KeyStream,
         Out |-> Out]

(* A faulty parity byte that leaves the keystream bit out; C5 has to tell  *)
(* it from ArrayParity.                                                    *)
ArrayParityPlain(BufferByte, Odd) ==
    oddparity8(BufferByte)

(* the encrypted parity byte of the bulk operations *)
ArrayParity(BufferByte, Odd) ==
    XOR8(oddparity8(BufferByte), CRYPTO1_FILTER_OUTPUT_B0_24(Odd))

(* one pass of the while loop; a = [Even, Odd, KeyStream, Out, Buffer, Parity], *)
(* i the bytes done                                                             *)
ParityByte(a, i) ==
    Val(LAMBDA r :
            [Even |-> r.Even, Odd |-> r.Odd, KeyStream |-> r.KeyStream,
             Out |-> CRYPTO1_FILTER_OUTPUT_B0_24(r.Odd),
             Buffer |-> [a.Buffer EXCEPT ![i + 1] = XOR8(@, r.KeyStream)],
             Parity |-> [a.Parity EXCEPT ![i + 1] = ArrayParity(a.Buffer[i + 1], r.Odd)]],
        Loop(ParityBit, [Even |-> a.Even, Odd |-> a.Odd,
                         KeyStream |-> SHIFT8(a.KeyStream, a.Out), Out |-> a.Out], 0, 8))

Crypto1ByteArrayWithParity(S, Buffer, OldParity, Count) ==
    Val(LAMBDA a : [State |-> [Even |-> a.Even, Odd |-> a.Odd],
                    Buffer |-> a.Buffer, Parity |-> a.Parity],
        Loop(ParityByte, [Even |-> S.Even, Odd |-> S.Odd, KeyStream |-> 0,
                          Out |-> CRYPTO1_FILTER_OUTPUT_B0_24(S.Odd),
                          Buffer |-> Buffer, Parity |-> OldParity], 0, Count))

(* A faulty pass of the inner loop of Crypto1ByteArrayWithParityHasIn that  *)
(* clocks without the input bit; C11 has to tell it from HasInBit.         *)
HasInBitNoInput(r, bit) ==
    ParityBit(r, bit) @@ [In |-> SHR8(r.In, 1)]

(* one pass of the inner loop of Crypto1ByteArrayWithParityHasIn;          *)
(* r = [Even, Odd, KeyStream, Out, In]                                     *)
HasInBit(r, bit) ==
    LET odd == (bit % 2) = 1
        Fb0 == IF odd THEN Crypto1LFSRbyteFeedback(r.Odd, r.Even)
                      ELSE Crypto1LFSRbyteFeedback(r.Even, r.Odd)
        Feedback == XOR8(Fb0, AND8(r.In, 1))
        Even == IF odd THEN r.Even ELSE SHIFT24(r.Even, Feedback)
        Odd  == IF odd THEN SHIFT24(r.Odd, Feedback) ELSE r.Odd
        take == IF odd THEN bit < 7 ELSE bit > 0
        Out  == IF ~take THEN r.Out
                ELSE IF odd THEN CRYPTO1_FILTER_OUTPUT_B7_24(Even)
                            ELSE CRYPTO1_FILTER_OUTPUT_B7_24(Odd)
    IN  [Even |-> Even, Odd |-> Odd,
         KeyStream |-> IF take THEN OR8(SHR8(r.KeyStream, 1), Out) ELSE r.KeyStream,
         Out |-> Out,
         In |-> SHR8(r.In, 1)]

HasInByte(a, i) ==
    Val(LAMBDA r :
            [Even |-> r.Even, Odd |-> r.Odd, KeyStream |-> r.KeyStream,
             Out |-> CRYPTO1_FILTER_OUTPUT_B0_24(r.Odd),
             Buffer |-> [a.Buffer EXCEPT ![i + 1] = XOR8(@, r.KeyStream)],
             Parity |-> [a.Parity EXCEPT ![i + 1] = ArrayParity(a.Buffer[i + 1], r.Odd)]],
        Loop(HasInBit, [Even |-> a.Even, Odd |-> a.Odd,
                        KeyStream |-> SHIFT8(a.KeyStream, a.Out), Out |-> a.Out,
                        In |-> a.Buffer[i + 1]], 0, 8))

Crypto1ByteArrayWithParityHasIn(S, Buffer, OldParity, Count) ==
    Val(LAMBDA a : [State |-> [Even |-> a.Even, Odd |-> a.Odd],
                    Buffer |-> a.Buffer, Parity |-> a.Parity],
        Loop(HasInByte, [Even |-> S.Even, Odd |-> S.Odd, KeyStream |-> 0,
                         Out |-> CRYPTO1_FILTER_OUTPUT_B0_24(S.Odd),
                         Buffer |-> Buffer, Parity |-> OldParity], 0, Count))

----------------------------------------------------------------------------
(* The packed-state engine (crypto1.c, mf1_crapto1.h).  A uint32_t or      *)
(* uint64_t is the tuple of its bytes, least significant first.            *)

(* the uint32_t with the value n, 0 <= n < 2^31 *)
W32(n) == <<n % 256, (n \div 256) % 256, (n \div 65536) % 256, (n \div 16777216) % 256>>

(* BIT(x, n) for a uint32_t or uint64_t x *)
BITW(x, n) == BIT(x[(n \div 8) + 1], n % 8)

AND32(a, b) == <<AND8(a[1], b[1]), AND8(a[2], b[2]), AND8(a[3], b[3]), AND8(a[4], b[4])>>

XOR32(a, b) == <<XOR8(a[1], b[1]), XOR8(a[2], b[2]), XOR8(a[3], b[3]), XOR8(a[4], b[4])>>

(* x << 1 | b in 32 bits: the bit shifted out of bit 31 is lost *)
SHL1OR(x, b) ==
    <<(2 * x[1] + b) % 256,
      (2 * x[2] + (x[1] \div 128)) % 256,
      (2 * x[3] + (x[2] \div 128)) % 256,
      (2 * x[4] + (x[3] \div 128)) % 256>>

LF_POLY_ODD == W32(2739804)

LF_POLY_EVEN == W32(8849412)

(* x >> 4k & 0xf *)
Nibble32(x, k) == IF k % 2 = 0 THEN x[(k \div 2) + 1] % 16 ELSE x[(k \div 2) + 1] \div 16

(* A faulty filter whose output table is 0x6C57E80A, the top bit of the    *)
(* code's 0xEC57E80A lost; C21 has to tell it from filter.                 *)
filterTableTopBitLost(x) ==
    BITW(<<10, 232, 87, 108>>,
         16 * BIT(991936, Nibble32(x, 0) + 4)
         + 8 * BIT(444864, Nibble32(x, 1) + 3)
         + 4 * BIT(247984, Nibble32(x, 2) + 2)
         + 2 * BIT(123992, Nibble32(x, 3) + 1)
         + BIT(55608, Nibble32(x, 4)))

(* A faulty filter whose last line shifts x by 20 where the code shifts by *)
(* 16; C20 has to tell it from filter.                                     *)
filterShiftedBy20(x) ==
    BITW(<<10, 232, 87, 236>>,
         16 * BIT(991936, Nibble32(x, 0) + 4)
         + 8 * BIT(444864, Nibble32(x, 1) + 3)
         + 4 * BIT(247984, Nibble32(x, 2) + 2)
         + 2 * BIT(123992, Nibble32(x, 3) + 1)
         + BIT(55608, Nibble32(x, 5)))

(* c >> n & 2^k is bit n+k of c, in place k;                              *)
(* 0xf22c0, 0x6c9c0, 0x3c8b0, 0x1e458, 0x0d938 and 0xEC57E80A             *)
filter(x) ==
    BITW(<<10, 232, 87, 236>>,
         16 * BIT(991936, Nibble32(x, 0) + 4)
         + 8 * BIT(444864, Nibble32(x, 1) + 3)
         + 4 * BIT(247984, Nibble32(x, 2) + 2)
         + 2 * BIT(123992, Nibble32(x, 3) + 1)
         + BIT(55608, Nibble32(x, 4)))

EvenByteParity == [x \in Byte |-> 1 - OddByteParity[x]]

evenparity8(x) == EvenByteParity[x]

(* x ^= x >> 16; x ^= x >> 8; evenparity8(x & 0xFF), which is __builtin_parity(x) *)
evenparity32(x) == evenparity8(XOR8(XOR8(x[1], x[3]), XOR8(x[2], x[4])))

(* n ^ 7 for a bit index n *)
XorSeven(n) == (n - (n % 8)) + (7 - (n % 8))

(* one pass of the loop of crypto1_init, the j-th: i = 47 - 2j *)
InitStep(st, key, j) ==
    [odd  |-> SHL1OR(st.odd, BITW(key, XorSeven((47 - 2 * j) - 1))),
     even |-> SHL1OR(st.even, BITW(key, XorSeven(47 - 2 * j)))]

(* key is a uint64_t; state is never NULL here *)
crypto1_init(key) ==
    Loop(LAMBDA st, j : InitStep(st, key, j), [odd |-> W32(0), even |-> W32(0)], 0, 24)

(* !!x *)
NotNot(x) == IF x = 0 THEN 0 ELSE 1

(* A faulty feedin that leaves the filter output out of the feedback when  *)
(* is_encrypted is set; C17 has to tell it from Feedin.                    *)
FeedinWithoutOutput(s, ret, in, is_encrypted) ==
    XOR32(XOR32(W32(NotNot(in)), AND32(LF_POLY_ODD, s.odd)),
          AND32(LF_POLY_EVEN, s.even))

(* feedin as crypto1_bit has it before the shift *)
Feedin(s, ret, in, is_encrypted) ==
    XOR32(XOR32(XOR32(W32(AND8(ret, NotNot(is_encrypted))), W32(NotNot(in))),
                AND32(LF_POLY_ODD, s.odd)),
          AND32(LF_POLY_EVEN, s.even))

crypto1_bit(s, in, is_encrypted) ==
    Val(LAMBDA ret :
            [s   |-> [odd |-> s.even,
                      even |-> SHL1OR(s.odd, evenparity32(Feedin(s, ret, in, is_encrypted)))],
             ret |-> ret],
        filter(s.odd))

(* one pass of the loop of crypto1_byte; r = [s, ret] *)
ByteStep(r, in, is_encrypted, i) ==
    Val(LAMBDA b : [s |-> b.s, ret |-> OR8(r.ret, SHL8(b.ret, i))],
        crypto1_bit(r.s, BIT(in, i), is_encrypted))

crypto1_byte(s, in, is_encrypted) ==
    Loop(LAMBDA r, i : ByteStep(r, in, is_encrypted, i), [s |-> s, ret |-> 0], 0, 8)

(* hex_utils.c: num = (num << 8) | src[i] for the first len bytes of src;   *)
(* the switch's fast paths for len 4, 2, 1 and 0 return the same value     *)
bytes_to_num(src, len) ==
    Loop(LAMBDA num, i : <<src[i + 1], num[1], num[2], num[3], num[4], num[5], num[6], num[7]>>,
         <<0, 0, 0, 0, 0, 0, 0, 0>>, 0, len)


(* x << 1 | b in 64 bits *)
SHL1OR64(x, b) ==
    <<(2 * x[1] + b) % 256,
      (2 * x[2] + (x[1] \div 128)) % 256,
      (2 * x[3] + (x[2] \div 128)) % 256,
      (2 * x[4] + (x[3] \div 128)) % 256,
      (2 * x[5] + (x[4] \div 128)) % 256,
      (2 * x[6] + (x[5] \div 128)) % 256,
      (2 * x[7] + (x[6] \div 128)) % 256,
      (2 * x[8] + (x[7] \div 128)) % 256>>

(* A faulty pass of the loop of crypto1_get_lfsr that reads bit i where    *)
(* the code reads bit i ^ 3; C14 has to tell it from GetLfsrStep.          *)
GetLfsrStepPlainIndex(lfsr, state, k) ==
    SHL1OR64(SHL1OR64(lfsr, BITW(state.odd, 23 - k)), BITW(state.even, 23 - k))

(* A faulty pass of the loop of crypto1_get_lfsr that takes the even bit   *)
(* before the odd one; C15 has to tell it from GetLfsrStep.                *)
GetLfsrStepEvenFirst(lfsr, state, k) ==
    SHL1OR64(SHL1OR64(lfsr, BITW(state.even, XOR8(23 - k, 3))),
             BITW(state.odd, XOR8(23 - k, 3)))

(* one pass of the loop of crypto1_get_lfsr, the k-th: i = 23 - k *)
GetLfsrStep(lfsr, state, k) ==
    SHL1OR64(SHL1OR64(lfsr, BITW(state.odd, XOR8(23 - k, 3))),
             BITW(state.even, XOR8(23 - k, 3)))

(* the value left in *lfsr; state is read only *)
crypto1_get_lfsr(state) ==
    Loop(LAMBDA lfsr, k : GetLfsrStep(lfsr, state, k), <<0, 0, 0, 0, 0, 0, 0, 0>>, 0, 24)

BEBIT(x, n) == BITW(x, XOR8(n, 24))

(* A faulty pass of the loop of crypto1_word that takes and places bit i   *)
(* where the code uses bit i ^ 24; C18 has to tell it from WordStep.       *)
WordStepPlainIndex(r, in, is_encrypted, i) ==
    Val(LAMBDA b :
            [s |-> b.s,
             ret |-> [r.ret EXCEPT ![(i \div 8) + 1] = OR8(@, SHL8(b.ret, i % 8))]],
        crypto1_bit(r.s, BITW(in, i), is_encrypted))

(* one pass of the loop of crypto1_word; r = [s, ret], ret a uint32_t:     *)
(* ret |= (uint32_t) bit << ((24 ^ i) & 0x1F)                              *)
WordStep(r, in, is_encrypted, i) ==
    Val(LAMBDA b :
            [s |-> b.s,
             ret |-> [r.ret EXCEPT ![(AND8(XOR8(24, i), 31) \div 8) + 1] =
                         OR8(@, SHL8(b.ret, AND8(XOR8(24, i), 31) % 8))]],
        crypto1_bit(r.s, BEBIT(in, i), is_encrypted))

crypto1_word(s, in, is_encrypted) ==
    Loop(LAMBDA r, i : WordStep(r, in, is_encrypted, i), [s |-> s, ret |-> W32(0)], 0, 32)

----------------------------------------------------------------------------
(* Frames with interleaved parity bits *)

(* A faulty pass of the loop of Crypto1EncryptWithParity that clocks the   *)
(* register after the parity bits as well; C12 has to tell it from         *)
(* EncryptBit.                                                             *)
EncryptBitAlwaysClocked(r, i) ==
    [State |-> Crypto1LFSR(r.State, 0),
     Buffer |-> [r.Buffer EXCEPT ![(i \div 8) + 1] =
                    XOR8(@, SHL8(CRYPTO1_FILTER_OUTPUT_B0_24(r.State.Odd), i % 8))]]

(* one pass of the loop of Crypto1EncryptWithParity, on bit i *)
EncryptBit(r, i) ==
    [State |-> IF (i + 1) % 9 # 0 THEN Crypto1LFSR(r.State, 0) ELSE r.State,
     Buffer |-> [r.Buffer EXCEPT ![(i \div 8) + 1] =
                    XOR8(@, SHL8(CRYPTO1_FILTER_OUTPUT_B0_24(r.State.Odd), i % 8))]]

Crypto1EncryptWithParity(S, Buffer, BitCount) ==
    Loop(EncryptBit, [State |-> S, Buffer |-> Buffer], 0, BitCount)

(* A faulty pass of the loop of Crypto1ReaderAuthWithParity that feeds the *)
(* register the bit after the keystream XOR; C13 has to tell it from       *)
(* ReaderAuthBit.                                                          *)
ReaderAuthBitFedCipher(r, i) ==
    Val(LAMBDA ks :
            [State |-> IF (i + 1) % 9 # 0
                       THEN Crypto1LFSR(r.State,
                                IF i < 36
                                THEN (BIT(r.Buffer[(i \div 8) + 1], i % 8) + ks) % 2
                                ELSE 0)
                       ELSE r.State,
             Buffer |-> [r.Buffer EXCEPT ![(i \div 8) + 1] = XOR8(@, SHL8(ks, i % 8))]],
        CRYPTO1_FILTER_OUTPUT_B0_24(r.State.Odd))

(* one pass of the loop of Crypto1ReaderAuthWithParity, on bit i: feedback *)
(* is read from the buffer before the XOR is stored                        *)
ReaderAuthBit(r, i) ==
    Val(LAMBDA feedback :
            [State |-> IF (i + 1) % 9 # 0
                       THEN Crypto1LFSR(r.State, IF i < 36 THEN AND8(feedback, 1) ELSE 0)
                       ELSE r.State,
             Buffer |-> [r.Buffer EXCEPT ![(i \div 8) + 1] =
                            XOR8(@, SHL8(CRYPTO1_FILTER_OUTPUT_B0_24(r.State.Odd), i % 8))]],
        SHR8(r.Buffer[(i \div 8) + 1], i % 8))

Crypto1ReaderAuthWithParity(S, PlainReaderAnswerWithParityBits) ==
    Loop(ReaderAuthBit, [State |-> S, Buffer |-> PlainReaderAnswerWithParityBits], 0, 72)

----------------------------------------------------------------------------
(* The card's 16-bit PRNG in its 32-bit register; a uint32_t is the tuple  *)
(* of its four bytes, least significant first                              *)

(* __REV and __builtin_bswap32 *)
bswap32(x) == <<x[4], x[3], x[2], x[1]>>

(* x >> 1 | t << 31 for a bit t *)
SHR1OR(x, t) ==
    <<(x[1] \div 2) + 128 * (x[2] % 2),
      (x[2] \div 2) + 128 * (x[3] % 2),
      (x[3] \div 2) + 128 * (x[4] % 2),
      (x[4] \div 2) + 128 * t>>

(* A faulty step that taps bit 20 where the code taps bit 21; C22 and C23  *)
(* have to tell it from PrngStep.                                          *)
PrngStepTap20(x) ==
    SHR1OR(x, (BITW(x, 16) + BITW(x, 18) + BITW(x, 19) + BITW(x, 20)) % 2)

(* x = x >> 1 | (x >> 16 ^ x >> 18 ^ x >> 19 ^ x >> 21) << 31: of the XOR  *)
(* only bit 0 is left by << 31                                             *)
PrngStep(x) ==
    SHR1OR(x, (BITW(x, 16) + BITW(x, 18) + BITW(x, 19) + BITW(x, 21)) % 2)

(* the three branches of prng_successor between its two __REV: n == 1,     *)
(* n == 16 and while (n--)                                                 *)
prng_successor(x, n) ==
    bswap32(IF n = 1 THEN PrngStep(bswap32(x))
            ELSE IF n = 16 THEN Loop(LAMBDA y, i : PrngStep(y), bswap32(x), 0, 16)
            ELSE Loop(LAMBDA y, i : PrngStep(y), bswap32(x), 0, n))

(* A faulty Crypto1FreePRNG whose n == 16 branch runs 15 times; C22 has to *)
(* tell it from Crypto1FreePRNG.                                           *)
Crypto1FreePRNGShortFastPath(x, n) ==
    bswap32(IF n = 1 THEN PrngStep(bswap32(x))
            ELSE IF n = 16 THEN Loop(LAMBDA y, i : PrngStep(y), bswap32(x), 0, 15)
            ELSE Loop(LAMBDA y, i : PrngStep(y), bswap32(x), 0, n))

Crypto1FreePRNG(x, n) ==
    bswap32(IF n = 1 THEN PrngStep(bswap32(x))
            ELSE IF n = 16 THEN Loop(LAMBDA y, i : PrngStep(y), bswap32(x), 0, 16)
            ELSE Loop(LAMBDA y, i : PrngStep(y), bswap32(x), 0, n))

(* ^ on uint16_t *)
XOR16(a, b) == XOR8(a % 256, b % 256) + 256 * XOR8(a \div 256, b \div 256)

(* Feedback = (uint16_t)(Temp >> 16); Feedback ^= Feedback >> 3;           *)
(* Feedback ^= Feedback >> 2; Temp is [lo, hi], its two 16-bit halves      *)
PrngFold(Temp) ==
    Val(LAMBDA F : XOR16(F, F \div 4), XOR16(Temp.hi, Temp.hi \div 8))

(* Temp = (Temp >> k) | (((uint32_t) Feedback) << (32 - k)), k = 11 or 10  *)
PrngChunk(Temp, k) ==
    Val(LAMBDA Feedback :
            [lo |-> (Temp.lo \div (2 ^ k)) + (Temp.hi % (2 ^ k)) * (2 ^ (16 - k)),
             hi |-> (Temp.hi \div (2 ^ k)) + (Feedback % (2 ^ k)) * (2 ^ (16 - k))],
        PrngFold(Temp))

(* A faulty pass of the loop of Crypto1PRNG whose last chunk is of 11 bits *)
(* like the first two; C28 has to tell it from PrngRound.                  *)
PrngRoundOf33(Temp, i) ==
    PrngChunk(PrngChunk(PrngChunk(Temp, 11), 11), 11)

(* one pass of the loop of Crypto1PRNG: 11, 11 and 10 bits *)
PrngRound(Temp, i) ==
    Val(LAMBDA c : PrngChunk(c, 10),
        Val(LAMBDA b : PrngChunk(b, 11), PrngChunk(Temp, 11)))

(* State is the caller's uint8_t[4], ClockCount a uint8_t; the loop runs   *)
(* while ClockCount >= 32, which is ClockCount / 32 times                  *)
Crypto1PRNG(PrngState, ClockCount) ==
    Val(LAMBDA Temp : <<Temp.lo % 256, Temp.lo \div 256, Temp.hi % 256, Temp.hi \div 256>>,
        Loop(PrngRound,
             [lo |-> PrngState[1] + 256 * PrngState[2],
              hi |-> PrngState[3] + 256 * PrngState[4]],
             0, ClockCount \div 32))

----------------------------------------------------------------------------
(* The rollback clock of the packed engine, of which the header declares   *)
(* the functions only: the inverse step as the specification's section 4.3 *)
(* gives it for 24-bit halves. The clocked state has odd' = even and       *)
(* even' = odd << 1 | b, so b is bit 0 of even', the low 23 bits of odd    *)
(* are even' >> 1, and the bit of odd that the shift pushed out of the 24  *)
(* is the section's feedin.                                                *)

lfsr_rollback_bit(st, in, fb) ==
    Val(LAMBDA odd :
        Val(LAMBDA even :
            Val(LAMBDA out :
                [s |-> [odd |-> [odd EXCEPT ![3] =
                                    @ + 128 * ((BITW(st.even, 0)
                                                + evenparity32(AND32(LF_POLY_ODD, odd))
                                                + evenparity32(AND32(LF_POLY_EVEN, even))
                                                + (IF fb # 0 THEN out ELSE 0)
                                                + (in % 2)) % 2)],
                        even |-> even],
                 ret |-> out],
                filter(odd)),
            AND32(st.odd, W32(16777215))),
        AND32(SHR1OR(st.even, 0), W32(8388607)))

(* the lifts undo the bits the forward lifts clocked, last one first *)
lfsr_rollback_byte(st, in, fb) ==
    Loop(LAMBDA r, k :
             Val(LAMBDA b : [s |-> b.s, ret |-> OR8(r.ret, SHL8(b.ret, 7 - k))],
                 lfsr_rollback_bit(r.s, BIT(in, 7 - k), fb)),
         [s |-> st, ret |-> 0], 0, 8)

lfsr_rollback_word(st, in, fb) ==
    Loop(LAMBDA r, k :
             Val(LAMBDA b :
                     [s |-> b.s,
                      ret |-> [r.ret EXCEPT ![(XOR8(24, 31 - k) \div 8) + 1] =
                                  OR8(@, SHL8(b.ret, XOR8(24, 31 - k) % 8))]],
                 lfsr_rollback_bit(r.s, BEBIT(in, 31 - k), fb)),
         [s |-> st, ret |-> W32(0)], 0, 32)
----------------------------------------------------------------------------
(* The callers' inputs *)

MaxCalls == 2

MaxCount == 2

Keys == { <<255, 255, 255, 255, 255, 255>>, <<160, 161, 162, 163, 164, 165>> }

Uids == { <<205, 118, 145, 246>>, <<1, 2, 3, 4>> }

CardNonces == { <<78, 99, 66, 234>>, <<1, 32, 20, 90>> }

ReaderNonces == { <<21, 69, 144, 168>>, <<0, 0, 0, 0>> }

(* what a caller's n-byte parity buffer holds before a call *)
StaleParity(n) == [i \in 1..n |-> 170]

(* buffers: the first Count bytes of a few fixed messages *)
Messages == { <<48, 0, 2, 168, 97, 20>>, <<255, 255, 255, 255, 255, 255>>,
              <<0, 0, 0, 0, 0, 0>> }

Buffers == { SubSeq(m, 1, n) : m \in Messages, n \in 0..MaxCount }

----------------------------------------------------------------------------
(* The process-wide State of the byte-split engine, a struct Crypto1State s *)
(* that a caller of the packed engine owns, and the last call: its name,   *)
(* the state it found, its arguments as passed and what it left in them or *)
(* returned                                                                *)

VARIABLES State, s, op, pre, args, res, calls

vars == <<State, s, op, pre, args, res, calls>>

Init ==
    /\ State = ZeroState
    /\ s = [odd |-> W32(0), even |-> W32(0)]
    /\ op = "none"
    /\ pre = ZeroState
    /\ args = <<>>
    /\ res = <<>>
    /\ calls = 0

Called(name) ==
    /\ calls < MaxCalls
    /\ calls' = calls + 1
    /\ op' = name
    /\ pre' = State
    /\ s' = s

(* a setup that stores five of the six State bytes and leaves Odd[2] as it was *)
CallSetupKeepsOddByte ==
    /\ Called("Setup")
    /\ \E Key \in Keys, Uid \in Uids, CardNonce \in CardNonces :
         \E r \in { Crypto1Setup(Key, Uid, CardNonce) } :
             /\ State' = [r.State EXCEPT !.Odd[3] = State.Odd[3]]
             /\ args' = [Key |-> Key, Uid |-> Uid, CardNonce |-> CardNonce]
             /\ res' = [CardNonce |-> r.CardNonce]

CallSetup ==
    /\ Called("Setup")
    /\ \E Key \in Keys, Uid \in Uids, CardNonce \in CardNonces :
         \E r \in { Crypto1Setup(Key, Uid, CardNonce) } :
             /\ State' = r.State
             /\ args' = [Key |-> Key, Uid |-> Uid, CardNonce |-> CardNonce]
             /\ res' = [CardNonce |-> r.CardNonce]

CallSetupNested ==
    /\ Called("SetupNested")
    /\ \E Key \in Keys, Uid \in Uids, CardNonce \in CardNonces, Decrypt \in {0, 1} :
         \E r \in { Crypto1SetupNested(Key, Uid, CardNonce, StaleParity(NONCE_SIZE), Decrypt) } :
             /\ State' = r.State
             /\ args' = [Key |-> Key, Uid |-> Uid, CardNonce |-> CardNonce,
                         Decrypt |-> Decrypt]
             /\ res' = [CardNonce |-> r.CardNonce, NonceParity |-> r.NonceParity,
                        Boundary |-> r.Boundary]

CallAuth ==
    /\ Called("Auth")
    /\ \E EncryptedReaderNonce \in ReaderNonces :
         \E r \in { Crypto1Auth(State, EncryptedReaderNonce) } :
             /\ State' = r.State
             /\ args' = [EncryptedReaderNonce |-> EncryptedReaderNonce]
             /\ res' = [EncryptedReaderNonce |-> r.EncryptedReaderNonce]

CallNibble ==
    /\ Called("Nibble")
    /\ \E r \in { Crypto1Nibble(State) } :
           /\ State' = r.State
           /\ args' = <<>>
           /\ res' = [ret |-> r.ret]

CallByte ==
    /\ Called("Byte")
    /\ \E r \in { Crypto1Byte(State) } :
           /\ State' = r.State
           /\ args' = <<>>
           /\ res' = [ret |-> r.ret]

CallByteArray ==
    /\ Called("ByteArray")
    /\ \E Buffer \in Buffers :
         \E r \in { Crypto1ByteArray(State, Buffer, Len(Buffer)) } :
             /\ State' = r.State
             /\ args' = [Buffer |-> Buffer, Count |-> Len(Buffer)]
             /\ res' = [Buffer |-> r.Buffer]

CallByteArrayWithParity ==
    /\ Called("ByteArrayWithParity")
    /\ \E Buffer \in Buffers :
         \E r \in { Crypto1ByteArrayWithParity(State, Buffer, StaleParity(Len(Buffer)),
                                               Len(Buffer)) } :
             /\ State' = r.State
             /\ args' = [Buffer |-> Buffer, Count |-> Len(Buffer)]
             /\ res' = [Buffer |-> r.Buffer, Parity |-> r.Parity]

CallByteArrayWithParityHasIn ==
    /\ Called("ByteArrayWithParityHasIn")
    /\ \E Buffer \in Buffers :
         \E r \in { Crypto1ByteArrayWithParityHasIn(State, Buffer, StaleParity(Len(Buffer)),
                                                    Len(Buffer)) } :
             /\ State' = r.State
             /\ args' = [Buffer |-> Buffer, Count |-> Len(Buffer)]
             /\ res' = [Buffer |-> r.Buffer, Parity |-> r.Parity]

Next ==
    \/ CallSetup
    \/ CallSetupNested
    \/ CallAuth
    \/ CallNibble
    \/ CallByte
    \/ CallByteArray
    \/ CallByteArrayWithParity
    \/ CallByteArrayWithParityHasIn

Spec == Init /\ [][Next]_vars


----------------------------------------------------------------------------
(* Frames with parity bits: a setup, then frames enciphered bit by bit *)

MaxBits == 19

BitCounts == 0..MaxBits

(* three-byte buffers, long enough for every BitCount *)
Frames == { <<48, 0, 2>>, <<255, 255, 255>>, <<165, 90, 60>> }

(* reader answers of eight bytes with their parity bits, nine bytes in all *)
ReaderAnswers == { <<21, 69, 144, 168, 97, 20, 2, 168, 48>>,
                   <<255, 255, 255, 255, 255, 255, 255, 255, 255>>,
                   <<0, 0, 0, 0, 0, 0, 0, 0, 0>> }

CallEncryptWithParity ==
    /\ Called("EncryptWithParity")
    /\ \E Buffer \in Frames, BitCount \in BitCounts :
         \E r \in { Crypto1EncryptWithParity(State, Buffer, BitCount) } :
             /\ State' = r.State
             /\ args' = [Buffer |-> Buffer, BitCount |-> BitCount]
             /\ res' = [Buffer |-> r.Buffer]

CallReaderAuthWithParity ==
    /\ Called("ReaderAuthWithParity")
    /\ \E Buffer \in ReaderAnswers :
         \E r \in { Crypto1ReaderAuthWithParity(State, Buffer) } :
             /\ State' = r.State
             /\ args' = [Buffer |-> Buffer]
             /\ res' = [Buffer |-> r.Buffer]

FrameNext ==
    \/ CallSetup
    \/ CallEncryptWithParity
    \/ CallReaderAuthWithParity

FrameSpec == Init /\ [][FrameNext]_vars

----------------------------------------------------------------------------
(* The packed engine: a caller initialises its struct with a key and then  *)
(* clocks it by bits, bytes and words, or exports it                       *)

(* 48-bit keys as uint64_t *)
PackedKeys == { <<255, 255, 255, 255, 255, 255, 0, 0>>,
                <<165, 164, 163, 162, 161, 160, 0, 0>>,
                <<188, 154, 120, 86, 52, 18, 0, 0>>,
                <<1, 0, 0, 0, 0, 0, 0, 0>> }

(* values of the uint8_t argument in of crypto1_bit *)
InBits == { 0, 1, 2, 255 }

InBytes == { 90, 255 }

InWords == { <<120, 86, 52, 18>>, <<0, 0, 0, 128>> }

Flags == { 0, 1 }

MaxPackedCalls == 3

PackedCalled(name) ==
    /\ calls < MaxPackedCalls
    /\ calls' = calls + 1
    /\ op' = name
    /\ pre' = s
    /\ State' = State

(* the struct holds nothing a caller may use before its crypto1_init *)
Initialised == op # "none"

Call_crypto1_init ==
    /\ PackedCalled("crypto1_init")
    /\ \E key \in PackedKeys :
         \E r \in { crypto1_init(key) } :
             /\ s' = r
             /\ args' = [key |-> key]
             /\ res' = <<>>

Call_crypto1_get_lfsr ==
    /\ Initialised
    /\ PackedCalled("crypto1_get_lfsr")
    /\ \E r \in { crypto1_get_lfsr(s) } :
           /\ s' = s
           /\ args' = <<>>
           /\ res' = [lfsr |-> r]

Call_crypto1_bit ==
    /\ Initialised
    /\ PackedCalled("crypto1_bit")
    /\ \E in \in InBits, is_encrypted \in Flags :
         \E r \in { crypto1_bit(s, in, is_encrypted) } :
             /\ s' = r.s
             /\ args' = [in |-> in, is_encrypted |-> is_encrypted]
             /\ res' = [ret |-> r.ret]

Call_crypto1_byte ==
    /\ Initialised
    /\ PackedCalled("crypto1_byte")
    /\ \E in \in InBytes, is_encrypted \in Flags :
         \E r \in { crypto1_byte(s, in, is_encrypted) } :
             /\ s' = r.s
             /\ args' = [in |-> in, is_encrypted |-> is_encrypted]
             /\ res' = [ret |-> r.ret]

Call_crypto1_word ==
    /\ Initialised
    /\ PackedCalled("crypto1_word")
    /\ \E in \in InWords, is_encrypted \in Flags :
         \E r \in { crypto1_word(s, in, is_encrypted) } :
             /\ s' = r.s
             /\ args' = [in |-> in, is_encrypted |-> is_encrypted]
             /\ res' = [ret |-> r.ret]

PackedNext ==
    \/ Call_crypto1_init
    \/ Call_crypto1_get_lfsr
    \/ Call_crypto1_bit
    \/ Call_crypto1_byte
    \/ Call_crypto1_word

PackedSpec == Init /\ [][PackedNext]_vars

----------------------------------------------------------------------------
(* The filter of both engines on one register: State holds it in the       *)
(* byte-split layout and s in the packed layout, which is the byte-split   *)
(* half read from the other end, as Crypto1Setup and crypto1_init load a   *)
(* key; the bits of s above bit 23 are whatever the clocks left there      *)

(* a byte read from the other end *)
Rev8(b) ==
    128 * BIT(b, 0) + 64 * BIT(b, 1) + 32 * BIT(b, 2) + 16 * BIT(b, 3)
    + 8 * BIT(b, 4) + 4 * BIT(b, 5) + 2 * BIT(b, 6) + BIT(b, 7)

(* the packed half for the byte-split half H, with h above bit 23 *)
Packed(H, h) == <<Rev8(H[3]), Rev8(H[2]), Rev8(H[1]), h>>

(* bytes that stand beside a byte that takes every value *)
Beside == { 0, 165, 255 }

OddHalves ==
    { <<a, b, c>> : a \in Byte, b \in Beside, c \in Beside }
    \cup { <<a, b, c>> : a \in Beside, b \in Byte, c \in Beside }
    \cup { <<a, b, c>> : a \in Beside, b \in Beside, c \in Byte }

EvenHalves == { <<0, 0, 0>>, <<100, 206, 100>> }

HighBytes == { 0, 255 }

FilterInit ==
    /\ \E O \in OddHalves, E \in EvenHalves, h \in HighBytes :
           /\ State = [Even |-> E, Odd |-> O]
           /\ s = [odd |-> Packed(O, h), even |-> Packed(E, h)]
    /\ op = "none"
    /\ pre = ZeroState
    /\ args = <<>>
    /\ res = <<>>
    /\ calls = 0

Call_Crypto1FilterOutput ==
    /\ op' = "Crypto1FilterOutput"
    /\ pre' = State
    /\ args' = <<>>
    /\ res' = [ret |-> Crypto1FilterOutput(State)]
    /\ UNCHANGED <<State, s, calls>>

Call_filter ==
    /\ op' = "filter"
    /\ pre' = s
    /\ args' = [x |-> s.odd]
    /\ res' = [ret |-> filter(s.odd)]
    /\ UNCHANGED <<State, s, calls>>

(* what the caller's buffers hold before Crypto1GetState *)
StaleHalf == <<170, 85, 170>>

Pointers == { NullPointer, PointerTo(StaleHalf) }

Call_Crypto1GetState ==
    /\ op' = "Crypto1GetState"
    /\ pre' = State
    /\ \E pEven \in Pointers, pOdd \in Pointers :
         \E r \in { Crypto1GetState(State, pEven, pOdd) } :
             /\ State' = r.State
             /\ args' = [pEven |-> pEven, pOdd |-> pOdd]
             /\ res' = [pEven |-> r.pEven, pOdd |-> r.pOdd]
    /\ UNCHANGED <<s, calls>>

FilterNext ==
    \/ Call_Crypto1FilterOutput
    \/ Call_filter
    \/ Call_Crypto1GetState

FilterSpec == FilterInit /\ [][FilterNext]_vars

----------------------------------------------------------------------------
(* The PRNG: a caller holds a nonce word, res.ret, and advances it call by *)
(* call; pre holds the word the calls started from and the steps asked for *)
(* since                                                                   *)

Seeds == { <<4, 3, 2, 1>>, <<239, 190, 173, 222>>, <<0, 0, 0, 0>>,
           <<255, 255, 255, 255>>, <<234, 66, 99, 78>>, <<0, 0, 0, 128>> }

(* values of n: the fast paths 1 and 16, their neighbours, longer runs *)
StepCounts == { 0, 1, 2, 15, 16, 17, 32, 64 }

(* values of ClockCount: multiples of 32 and values between them *)
ClockCounts == { 0, 31, 32, 33, 64, 95, 96, 255 }

MaxPrngCalls == 2

PrngInit ==
    /\ State = ZeroState
    /\ s = [odd |-> W32(0), even |-> W32(0)]
    /\ op = "none"
    /\ \E x \in Seeds :
           /\ pre = [x |-> x, n |-> 0]
           /\ res = [ret |-> x]
    /\ args = <<>>
    /\ calls = 0

PrngCalled(name) ==
    /\ calls < MaxPrngCalls
    /\ calls' = calls + 1
    /\ op' = name
    /\ UNCHANGED <<State, s>>

Call_prng_successor ==
    /\ PrngCalled("prng_successor")
    /\ \E n \in StepCounts :
         \E r \in { prng_successor(res.ret, n) } :
             /\ args' = [x |-> res.ret, n |-> n]
             /\ res' = [ret |-> r]
             /\ pre' = [x |-> pre.x, n |-> pre.n + n]

Call_Crypto1FreePRNG ==
    /\ PrngCalled("Crypto1FreePRNG")
    /\ \E n \in StepCounts :
         \E r \in { Crypto1FreePRNG(res.ret, n) } :
             /\ args' = [x |-> res.ret, n |-> n]
             /\ res' = [ret |-> r]
             /\ pre' = [x |-> pre.x, n |-> pre.n + n]

(* the caller keeps the nonce in a uint8_t[4], first byte the most         *)
(* significant of the word                                                 *)
Call_Crypto1PRNG ==
    /\ PrngCalled("Crypto1PRNG")
    /\ \E ClockCount \in ClockCounts :
         \E r \in { Crypto1PRNG(bswap32(res.ret), ClockCount) } :
             /\ args' = [State |-> bswap32(res.ret), ClockCount |-> ClockCount]
             /\ res' = [ret |-> bswap32(r), State |-> r]
             /\ pre' = [x |-> bswap32(r), n |-> 0]

PrngNext ==
    \/ Call_prng_successor
    \/ Call_Crypto1FreePRNG
    \/ Call_Crypto1PRNG

PrngSpec == PrngInit /\ [][PrngNext]_vars

----------------------------------------------------------------------------
(* FOREACH_VALID_NONCE(N, FILTER, FSIZE) step by step: res holds the       *)
(* macro's __n, __M, N and __i, op the place in the two loops; res.body    *)
(* records whether the statement after the macro has run in this pass of   *)
(* the outer loop, pre the seed and that record of the pass before         *)

(* FILTER and FSIZE pairs *)
NonceFilters == { <<1, 1>>, <<2, 2>>, <<8, 4>>, <<0, 8>>, <<5, 8>> }

(* the outer loop is followed for the seeds below MaxSeeds *)
MaxSeeds == 17

SeedEnd == IF MaxSeeds < 2 ^ 16 THEN MaxSeeds ELSE 2 ^ 16

NonceInit ==
    /\ State = ZeroState
    /\ s = [odd |-> W32(0), even |-> W32(0)]
    /\ op = "check"
    /\ \E f \in NonceFilters :
           /\ args = [FILTER |-> f[1], FSIZE |-> f[2]]
           /\ res = [n |-> 0, M |-> W32(0), N |-> W32(0), i |-> f[2] - 1, body |-> FALSE]
    /\ pre = [n |-> -1, body |-> FALSE]
    /\ calls = 0

(* the if / else if / else of the inner loop at index __i *)
Nonce_Check ==
    /\ op = "check"
    /\ IF BIT(args.FILTER, res.i) # evenparity32(AND32(res.M, W32(65281)))
       THEN op' = "increment" /\ res' = res
       ELSE IF res.i # 0
       THEN /\ op' = "check"
            /\ \E r \in { prng_successor(res.M, IF res.i = 7 THEN 48 ELSE 8) } :
                   res' = [res EXCEPT !.M = r, !.i = res.i - 1]
       ELSE op' = "body" /\ res' = res
    /\ UNCHANGED <<State, s, pre, args, calls>>

(* the statement after the macro, then __i-- ends the inner loop *)
Nonce_Body ==
    /\ op = "body"
    /\ op' = "increment"
    /\ res' = [res EXCEPT !.body = TRUE, !.i = res.i - 1]
    /\ UNCHANGED <<State, s, pre, args, calls>>

(* N = prng_successor(__M = ++__n, 16), then __n < 1 << 16 *)
Nonce_Increment ==
    /\ op = "increment"
    /\ \E r \in { prng_successor(W32(res.n + 1), 16) } :
           res' = [n |-> res.n + 1, M |-> W32(res.n + 1), N |-> r,
                   i |-> args.FSIZE - 1, body |-> FALSE]
    /\ pre' = [n |-> res.n, body |-> res.body]
    /\ op' = IF res.n + 1 < SeedEnd THEN "check" ELSE "done"
    /\ UNCHANGED <<State, s, args, calls>>

NonceNext ==
    \/ Nonce_Check
    \/ Nonce_Body
    \/ Nonce_Increment

NonceSpec == NonceInit /\ [][NonceNext]_vars

----------------------------------------------------------------------------
(* Crypto1LFSR alone, on any State: the steps that Crypto1EncryptWithParity *)
(* and Crypto1ReaderAuthWithParity make one at a time, with In 0 or 1      *)

LfsrStates ==
    { [Even |-> E, Odd |-> O] : E \in OddHalves, O \in EvenHalves }
    \cup { [Even |-> E, Odd |-> O] : E \in EvenHalves, O \in OddHalves }

MaxLfsrSteps == 2

LfsrInit ==
    /\ State \in LfsrStates
    /\ s = [odd |-> W32(0), even |-> W32(0)]
    /\ op = "none"
    /\ pre = ZeroState
    /\ args = <<>>
    /\ res = <<>>
    /\ calls = 0

Call_Crypto1LFSR ==
    /\ calls < MaxLfsrSteps
    /\ calls' = calls + 1
    /\ op' = "Crypto1LFSR"
    /\ pre' = State
    /\ \E In \in {0, 1} :
           /\ State' = Crypto1LFSR(State, In)
           /\ args' = [In |-> In]
    /\ UNCHANGED <<s, res>>

LfsrNext == Call_Crypto1LFSR

LfsrSpec == LfsrInit /\ [][LfsrNext]_vars
----------------------------------------------------------------------------
(* The cipher clocked one bit at a time with Crypto1LFSR and               *)
(* Crypto1FilterOutput: what the byte-wide operations are compared with    *)

(* n clocks with no input *)
NoInputClocks(S, n) == Loop(LAMBDA T, i : Crypto1LFSR(T, 0), S, 0, n)

(* one clock of bit i of In; r = [State, KeyStream].  The keystream bit is *)
(* the filter output before the clock; Enc = 1 folds it into what is       *)
(* shifted in, Enc = 0 leaves it out                                       *)
RefBit(r, In, Enc, i) ==
    Val(LAMBDA ks : [State |-> Crypto1LFSR(r.State, XOR8(BIT(In, i), AND8(ks, Enc))),
                     KeyStream |-> r.KeyStream + (ks * (2 ^ i))],
        Crypto1FilterOutput(r.State))

(* the 8 clocks of byte In, LSB first, and their keystream, bit i in place i *)
RefByte(S, In, Enc) ==
    Loop(LAMBDA r, i : RefBit(r, In, Enc, i), [State |-> S, KeyStream |-> 0], 0, 8)

RefBytesStep(a, In, Enc, j) ==
    Val(LAMBDA b : [State |-> b.State, KeyStream |-> Append(a.KeyStream, b.KeyStream)],
        RefByte(a.State, In[j + 1], Enc))

(* the 8 * Len(In) clocks of the bytes of In in order, and their keystream bytes *)
RefBytes(S, In, Enc) ==
    Loop(LAMBDA a, j : RefBytesStep(a, In, Enc, j), [State |-> S, KeyStream |-> <<>>],
         0, Len(In))

XorBytes(a, b) == [i \in 1..Len(a) |-> XOR8(a[i], b[i])]

Zeros(n) == [i \in 1..n |-> 0]

(* C1: for every pre-state and encrypted reader nonce, Crypto1Auth leaves  *)
(* the state of 32 clocks (bytes in order, LSB first) that each shift in   *)
(* ciphertext bit XOR filter output XOR tap parity, and leaves the input   *)
(* buffer as it was.                                                       *)
C1_AuthAbsorbsPlaintext ==
    op = "Auth" =>
        /\ State = RefBytes(pre, args.EncryptedReaderNonce, 1).State
        /\ res.EncryptedReaderNonce = args.EncryptedReaderNonce

PackedStep(a, In, j) ==
    Val(LAMBDA b : [s |-> b.s, out |-> Append(a.out, b.ret)],
        crypto1_byte(a.s, In[j + 1], 0))

(* crypto1_byte(S, In[i], 0) for the bytes of In in order, S from          *)
(* crypto1_init with the big-endian value of Key                           *)
PackedKeystream(Key, In) ==
    Loop(LAMBDA a, j : PackedStep(a, In, j),
         [s |-> crypto1_init(bytes_to_num(Key, 6)), out |-> <<>>], 0, Len(In)).out

(* C2: the bytes Crypto1Setup leaves in CardNonce are CardNonce[i] XOR     *)
(* crypto1_byte(S, CardNonce[i] XOR Uid[i], 0), i = 0..3 in order, with S  *)
(* loaded by crypto1_init from the big-endian value of Key.                *)
C2_SetupMatchesPackedEngine ==
    op = "Setup" =>
        res.CardNonce = XorBytes(args.CardNonce,
                                 PackedKeystream(args.Key, XorBytes(args.CardNonce, args.Uid)))

(* C3: Crypto1Nibble returns in bit i (i = 0..3) the filter output after i *)
(* no-input clocks from the entry state, which is Crypto1Byte() & 0x0F     *)
(* from that state, with bits 7..4 zero, and leaves State 4 no-input       *)
(* clocks on.                                                              *)
C3_NibbleIsLowHalfOfByte ==
    op = "Nibble" =>
        /\ \A i \in 0..3 : BIT(res.ret, i) = Crypto1FilterOutput(NoInputClocks(pre, i))
        /\ res.ret = AND8(Crypto1Byte(pre).ret, 15)
        /\ res.ret < 16
        /\ State = NoInputClocks(pre, 4)

(* C4: Crypto1ByteArrayWithParity leaves the Buffer bytes and the State    *)
(* that Crypto1ByteArray leaves for the same entry State, buffer and       *)
(* Count.                                                                  *)
C4_WithParityMatchesByteArray ==
    op = "ByteArrayWithParity" =>
        \A r \in { Crypto1ByteArray(pre, args.Buffer, args.Count) } :
            /\ res.Buffer = r.Buffer
            /\ State = r.State

(* what the bulk operation named by op clocks in: the buffer as passed for *)
(* HasIn, nothing otherwise                                                *)
ClockedIn == IF op = "ByteArrayWithParityHasIn" THEN args.Buffer ELSE Zeros(args.Count)

(* C5: in Crypto1ByteArrayWithParity and Crypto1ByteArrayWithParityHasIn,  *)
(* Parity[i] is oddparity8 of Buffer[i] as passed XOR the filter output of *)
(* the state 8*(i+1) clocks from the entry state, and the parity bits cost *)
(* no clock: State is 8*Count clocks from the entry state.                 *)
C5_ParityIsPlainParityXorNextKeystreamBit ==
    op \in {"ByteArrayWithParity", "ByteArrayWithParityHasIn"} =>
        /\ Len(res.Parity) = args.Count
        /\ \A i \in 1..args.Count :
               res.Parity[i] =
                   XOR8(oddparity8(args.Buffer[i]),
                        Crypto1FilterOutput(RefBytes(pre, SubSeq(ClockedIn, 1, i), 0).State))
        /\ State = RefBytes(pre, ClockedIn, 0).State

(* a HasIn call on two bytes whose clocked-in input moved the register and *)
(* whose two parity bytes differ                                           *)
C5_Witness ==
    /\ op = "ByteArrayWithParityHasIn"
    /\ args.Count = 2
    /\ args.Buffer[1] # 0
    /\ res.Parity[1] # res.Parity[2]
    /\ State # NoInputClocks(pre, 16)

(* C6: with Decrypt = true every one of the 32 bits Crypto1SetupNested     *)
(* shifts in is tap parity XOR (CardNonce bit XOR Uid bit) XOR the         *)
(* keystream bit of that bit position.                                     *)
C6_NestedDecryptFeedsPlaintext ==
    (op = "SetupNested" /\ args.Decrypt = 1) =>
        State = RefBytes(LoadKey(args.Key), XorBytes(args.CardNonce, args.Uid), 1).State

(* C7: with Decrypt = false Crypto1SetupNested leaves the CardNonce bytes  *)
(* and the State of Crypto1Setup called with the same Key, Uid and         *)
(* CardNonce.                                                              *)
C7_NestedWithoutDecryptIsSetup ==
    (op = "SetupNested" /\ args.Decrypt = 0) =>
        \A r \in { Crypto1Setup(args.Key, args.Uid, args.CardNonce) } :
            /\ res.CardNonce = r.CardNonce
            /\ State = r.State

(* a Crypto1SetupNested call without Decrypt that encrypted the nonce and  *)
(* wrote the four parity bytes                                             *)
C7_Witness ==
    /\ op = "SetupNested"
    /\ args.Decrypt = 0
    /\ args.Key = <<255, 255, 255, 255, 255, 255>>
    /\ args.CardNonce = <<78, 99, 66, 234>>
    /\ res.CardNonce = <<177, 156, 35, 77>>
    /\ res.NonceParity # StaleParity(NONCE_SIZE)

(* the 8 clocks of byte In, LSB first, the first of them with first folded in *)
EightClocks(S, In, first) ==
    Loop(LAMBDA T, i : Crypto1LFSR(T, XOR8(BIT(In, i), IF i = 0 THEN first ELSE 0)), S, 0, 8)

(* the registers Crypto1SetupNested starts byte b (1..4) from *)
BeforeByte(b) == IF b = 1 THEN LoadKey(args.Key) ELSE res.Boundary[b - 1]

(* C8: Crypto1SetupNested sets NonceParity[b] to oddparity8 of CardNonce[b] *)
(* as passed XOR pout, the filter output of the registers after byte b's 8 *)
(* clocks; no clock is spent on the parity bit (each byte starts from the  *)
(* registers the one before ended with, 8 clocks on, and State is the last *)
(* of them); and pout is the keystream bit XORed into bit 0 of byte b+1.   *)
C8_NestedParity ==
    op = "SetupNested" =>
        /\ Len(res.Boundary) = NONCE_SIZE
        /\ \A b \in 1..NONCE_SIZE :
               /\ res.NonceParity[b] =
                      XOR8(oddparity8(args.CardNonce[b]),
                           Crypto1FilterOutput(res.Boundary[b]))
               /\ res.Boundary[b] =
                      EightClocks(BeforeByte(b), XOR8(args.CardNonce[b], args.Uid[b]),
                                  AND8(Crypto1FilterOutput(BeforeByte(b)), args.Decrypt))
        /\ State = res.Boundary[NONCE_SIZE]
        /\ \A b \in 1..(NONCE_SIZE - 1) :
               BIT(res.CardNonce[b + 1], 0) =
                   XOR8(BIT(args.CardNonce[b + 1], 0), Crypto1FilterOutput(res.Boundary[b]))

(* a Crypto1SetupNested call with Decrypt whose parity bytes are not all alike *)
C8_Witness ==
    /\ op = "SetupNested"
    /\ args.Decrypt = 1
    /\ args.CardNonce = <<78, 99, 66, 234>>
    /\ res.NonceParity = <<0, 0, 0, 1>>

(* bit n of the key stream: the bits of Key[0], Key[1], ... LSB first *)
KeyStreamBit(Key, n) == BIT(Key[(n \div 8) + 1], n % 8)

(* byte j (0..2) of the 24-bit half that holds in bit k key-stream bit 2k + first *)
HalfByte(Key, j, first) ==
    KeyStreamBit(Key, 2 * (8 * j) + first)
    + 2 * KeyStreamBit(Key, 2 * (8 * j + 1) + first)
    + 4 * KeyStreamBit(Key, 2 * (8 * j + 2) + first)
    + 8 * KeyStreamBit(Key, 2 * (8 * j + 3) + first)
    + 16 * KeyStreamBit(Key, 2 * (8 * j + 4) + first)
    + 32 * KeyStreamBit(Key, 2 * (8 * j + 5) + first)
    + 64 * KeyStreamBit(Key, 2 * (8 * j + 6) + first)
    + 128 * KeyStreamBit(Key, 2 * (8 * j + 7) + first)

KeyLoaded(Key) ==
    [Even |-> <<HalfByte(Key, 0, 0), HalfByte(Key, 1, 0), HalfByte(Key, 2, 0)>>,
     Odd  |-> <<HalfByte(Key, 0, 1), HalfByte(Key, 1, 1), HalfByte(Key, 2, 1)>>]

(* C9: Crypto1Setup loads the key so that bit k of Even/Odd is key-stream  *)
(* bit 2k / 2k+1, then for each of the 32 bits takes the keystream bit     *)
(* from Crypto1FilterOutput and does one Crypto1LFSR step with the bit of  *)
(* CardNonce[i] XOR Uid[i] alone as input; CardNonce[i] is XORed with the  *)
(* keystream of byte i assembled LSB first.                                *)
C9_SetupIsSingleSteps ==
    op = "Setup" =>
        /\ LoadKey(args.Key) = KeyLoaded(args.Key)
        /\ \A r \in { RefBytes(KeyLoaded(args.Key),
                               XorBytes(args.CardNonce, args.Uid), 0) } :
               /\ State = r.State
               /\ res.CardNonce = XorBytes(args.CardNonce, r.KeyStream)

(* a Crypto1Setup call with a key whose halves differ, on the other Uid and nonce *)
C9_Witness ==
    /\ op = "Setup"
    /\ args.Key = <<160, 161, 162, 163, 164, 165>>
    /\ args.Uid = <<1, 2, 3, 4>>
    /\ args.CardNonce = <<1, 32, 20, 90>>
    /\ State = [Even |-> <<50, 114, 31>>, Odd |-> <<204, 233, 174>>]
    /\ res.CardNonce = <<113, 221, 194, 240>>

(* C10: Crypto1Byte returns in bit i the filter output after i no-input    *)
(* clocks from the entry state and leaves State 8 Crypto1LFSR(0) steps on; *)
(* Crypto1ByteArray XORs n such successive bytes into the buffer and       *)
(* leaves State 8n clocks on.                                              *)
C10_ByteAndByteArray ==
    /\ op = "Byte" =>
           /\ \A i \in 0..7 : BIT(res.ret, i) = Crypto1FilterOutput(NoInputClocks(pre, i))
           /\ State = NoInputClocks(pre, 8)
    /\ op = "ByteArray" =>
           /\ Len(res.Buffer) = args.Count
           /\ \A j \in 1..args.Count :
                  res.Buffer[j] =
                      XOR8(args.Buffer[j], Crypto1Byte(NoInputClocks(pre, 8 * (j - 1))).ret)
           /\ res.Buffer = XorBytes(args.Buffer, RefBytes(pre, Zeros(args.Count), 0).KeyStream)
           /\ State = NoInputClocks(pre, 8 * args.Count)

(* a Crypto1ByteArray call on two bytes, after a setup, whose two keystream *)
(* bytes differ                                                            *)
C10_Witness ==
    /\ op = "ByteArray"
    /\ args.Count = 2
    /\ pre # ZeroState
    /\ XOR8(res.Buffer[1], args.Buffer[1]) = Crypto1Byte(pre).ret
    /\ XOR8(res.Buffer[1], args.Buffer[1]) # XOR8(res.Buffer[2], args.Buffer[2])


(* C11: Crypto1ByteArrayWithParityHasIn leaves State 8*Count Crypto1LFSR   *)
(* steps from the entry state, step n fed bit n mod 8 of byte n div 8 of   *)
(* the buffer as passed, and nothing else.                                 *)
C11_HasInClocksPlainBits ==
    op = "ByteArrayWithParityHasIn" =>
        State = Loop(LAMBDA T, n : Crypto1LFSR(T, BIT(args.Buffer[(n \div 8) + 1], n % 8)),
                     pre, 0, 8 * args.Count)

(* a HasIn call on two bytes after a setup whose State is neither that of  *)
(* 16 clocks without input nor that of 16 clocks with the filter output    *)
(* folded in                                                               *)
C11_Witness ==
    /\ op = "ByteArrayWithParityHasIn"
    /\ args.Count = 2
    /\ pre # ZeroState
    /\ State # NoInputClocks(pre, 16)
    /\ State # RefBytes(pre, args.Buffer, 1).State

(* bit i of a buffer of bytes *)
BufBit(B, i) == BIT(B[(i \div 8) + 1], i % 8)

(* the clocks the register has had before bit i of a frame with parity     *)
(* bits: one per earlier bit that is not a parity bit                      *)
ClocksBefore(i) == i - (i \div 9)

(* C12: Crypto1EncryptWithParity XORs bit i of the buffer, for every       *)
(* i < BitCount, with the filter output of the register as it stands, and  *)
(* leaves the bits from BitCount on alone; the register is clocked without *)
(* input after every bit but those with (i+1) mod 9 = 0, so that State     *)
(* ends BitCount - floor(BitCount/9) clocks on and bit 9k+8 and bit 9k+9   *)
(* are XORed with the same keystream bit.                                  *)
C12_EncryptWithParity ==
    op = "EncryptWithParity" =>
        /\ State = NoInputClocks(pre, args.BitCount - (args.BitCount \div 9))
        /\ \A i \in 0..(8 * Len(args.Buffer) - 1) :
               BufBit(res.Buffer, i) =
                   IF i < args.BitCount
                   THEN (BufBit(args.Buffer, i)
                         + Crypto1FilterOutput(NoInputClocks(pre, ClocksBefore(i)))) % 2
                   ELSE BufBit(args.Buffer, i)
        /\ \A k \in 0..2 :
               9 * k + 9 < args.BitCount =>
                   (BufBit(res.Buffer, 9 * k + 8) + BufBit(args.Buffer, 9 * k + 8)) % 2
                     = (BufBit(res.Buffer, 9 * k + 9) + BufBit(args.Buffer, 9 * k + 9)) % 2

(* a call after a setup that covers two parity bits and ends inside a      *)
(* byte, with a keystream that is neither all zeros nor all ones           *)
C12_Witness ==
    /\ op = "EncryptWithParity"
    /\ args.BitCount = 19
    /\ pre # ZeroState
    /\ State # pre
    /\ State # NoInputClocks(pre, 19)
    /\ \E i, j \in 0..18 :
           /\ BufBit(res.Buffer, i) # BufBit(args.Buffer, i)
           /\ BufBit(res.Buffer, j) = BufBit(args.Buffer, j)

(* the register c clocks on from S, the first 32 clocks fed the data bits  *)
(* of the first four bytes of the answer B (bit n + n div 8 skips the      *)
(* parity bits), the later ones fed nothing                                *)
AnswerClocks(S, B, c) ==
    Loop(LAMBDA T, n : Crypto1LFSR(T, IF n < 32 THEN BufBit(B, n + (n \div 8)) ELSE 0),
         S, 0, c)

(* C13: Crypto1ReaderAuthWithParity XORs each of the 72 bits of its buffer *)
(* with the filter output of the register as it stands; it does not clock  *)
(* after the bits with (i+1) mod 9 = 0, clocks with the bit as passed      *)
(* after the other bits below 36 and without input after the other bits    *)
(* from 36 on: 64 clocks, the first 32 with input.                         *)
C13_ReaderAuthWithParity ==
    op = "ReaderAuthWithParity" =>
        /\ Len(res.Buffer) = 9
        /\ State = NoInputClocks(AnswerClocks(pre, args.Buffer, 32), 32)
        /\ State = AnswerClocks(pre, args.Buffer, 64)
        /\ \A i \in 0..71 :
               BufBit(res.Buffer, i) =
                   (BufBit(args.Buffer, i)
                    + Crypto1FilterOutput(AnswerClocks(pre, args.Buffer, ClocksBefore(i)))) % 2

(* an answer processed after a setup, whose bits changed the register and  *)
(* whose keystream is neither all zeros nor all ones                       *)
C13_Witness ==
    /\ op = "ReaderAuthWithParity"
    /\ pre # ZeroState
    /\ State # NoInputClocks(pre, 64)
    /\ \E i, j \in 0..71 :
           /\ BufBit(res.Buffer, i) # BufBit(args.Buffer, i)
           /\ BufBit(res.Buffer, j) = BufBit(args.Buffer, j)

(* C14: crypto1_get_lfsr on the state that crypto1_init made of a 48-bit   *)
(* key K returns exactly K.                                                *)
C14_GetLfsrOfInitIsKey ==
    op = "crypto1_get_lfsr" =>
        \A K \in PackedKeys : pre = crypto1_init(K) => res.lfsr = K

(* an export right after the initialisation with a key that is not a       *)
(* palindrome of bits                                                      *)
C14_Witness ==
    /\ op = "crypto1_get_lfsr"
    /\ pre = crypto1_init(<<188, 154, 120, 86, 52, 18, 0, 0>>)
    /\ res.lfsr = <<188, 154, 120, 86, 52, 18, 0, 0>>

(* the original statement of C15: bit 2i of the exported value is bit i of *)
(* even and bit 2i+1 is bit i of odd                                       *)
C15_InterleavedPlainIndex ==
    op = "crypto1_get_lfsr" =>
        \A i \in 0..23 :
            /\ BITW(res.lfsr, 2 * i) = BITW(pre.even, i)
            /\ BITW(res.lfsr, 2 * i + 1) = BITW(pre.odd, i)

(* C15, as amended: crypto1_get_lfsr returns a 48-bit value whose bit 2i   *)
(* is bit (i XOR 3) of state.even and whose bit 2i+1 is bit (i XOR 3) of   *)
(* state.odd, for every i in 0..23, and it does not modify the state.      *)
C15_InterleavedXor3 ==
    op = "crypto1_get_lfsr" =>
        /\ s = pre
        /\ \A i \in 0..23 :
               /\ BITW(res.lfsr, 2 * i) = BITW(pre.even, (i - (i % 4)) + (3 - (i % 4)))
               /\ BITW(res.lfsr, 2 * i + 1) = BITW(pre.odd, (i - (i % 4)) + (3 - (i % 4)))
        /\ \A n \in 48..63 : BITW(res.lfsr, n) = 0

(* an export of a clocked state whose halves differ and have bits above    *)
(* bit 23 set                                                              *)
C15_Witness ==
    /\ op = "crypto1_get_lfsr"
    /\ pre.odd # pre.even
    /\ pre.odd[4] # 0
    /\ \E K \in PackedKeys : K # res.lfsr /\ res.lfsr # <<0, 0, 0, 0, 0, 0, 0, 0>>

(* C16: after crypto1_init and any sequence of crypto1_bit, crypto1_byte   *)
(* and crypto1_word calls, odd and even have every bit above bit 23 zero.  *)
C16_HalvesStayIn24Bits ==
    /\ s.odd[4] = 0
    /\ s.even[4] = 0

(* the parity of the bits of a uint32_t *)
Parity32(x) ==
    (BIT(x[1], 0) + BIT(x[1], 1) + BIT(x[1], 2) + BIT(x[1], 3)
     + BIT(x[1], 4) + BIT(x[1], 5) + BIT(x[1], 6) + BIT(x[1], 7)
     + BIT(x[2], 0) + BIT(x[2], 1) + BIT(x[2], 2) + BIT(x[2], 3)
     + BIT(x[2], 4) + BIT(x[2], 5) + BIT(x[2], 6) + BIT(x[2], 7)
     + BIT(x[3], 0) + BIT(x[3], 1) + BIT(x[3], 2) + BIT(x[3], 3)
     + BIT(x[3], 4) + BIT(x[3], 5) + BIT(x[3], 6) + BIT(x[3], 7)
     + BIT(x[4], 0) + BIT(x[4], 1) + BIT(x[4], 2) + BIT(x[4], 3)
     + BIT(x[4], 4) + BIT(x[4], 5) + BIT(x[4], 6) + BIT(x[4], 7)) % 2

(* what a crypto1_bit call must have left, given the bit inbit that the    *)
(* feedback takes from its argument in                                     *)
BitCallIs(inbit) ==
    /\ res.ret = filter(pre.odd)
    /\ s.odd = pre.even
    /\ s.even = SHL1OR(pre.odd,
                       (inbit + res.ret * args.is_encrypted
                        + Parity32(AND32(LF_POLY_ODD, pre.odd))
                        + Parity32(AND32(LF_POLY_EVEN, pre.even))) % 2)

(* the original statement of C17: the feedback takes the least significant *)
(* bit of in, whatever 8-bit value in has                                  *)
C17_BitUsesLsbOfIn ==
    op = "crypto1_bit" => BitCallIs(args.in % 2)

(* C17, as amended: crypto1_bit returns filter(S.odd) of the state before  *)
(* the call and inserts feedin = (1 if in is not 0, else 0) XOR (out AND   *)
(* is_encrypted) XOR parity(LF_POLY_ODD & S.odd) XOR parity(LF_POLY_EVEN & *)
(* S.even), with new odd = old even and new even = (old odd << 1) |        *)
(* feedin; for every 8-bit in, which counts as 1 whenever it is not zero.  *)
C17_BitUsesNonZeroIn ==
    op = "crypto1_bit" => BitCallIs(IF args.in # 0 THEN 1 ELSE 0)

(* a call with in = 2 and is_encrypted set on a clocked state whose filter *)
(* output is 1                                                             *)
C17_Witness ==
    /\ op = "crypto1_bit"
    /\ args.in = 2
    /\ args.is_encrypted = 1
    /\ res.ret = 1
    /\ calls = 3

(* the state after n crypto1_bit calls from S, call i fed InBit(i) *)
BitCalls(S, InBit(_), is_encrypted, n) ==
    Loop(LAMBDA T, i : crypto1_bit(T, InBit(i), is_encrypted).s, S, 0, n)

(* i XOR 24 for i in 0..31: the byte index is reversed, the bit index in   *)
(* the byte is kept                                                        *)
Xor24(i) == 8 * (3 - (i \div 8)) + (i % 8)

(* C18: crypto1_word is 32 successive crypto1_bit calls, call i fed bit    *)
(* (i XOR 24) of in and its output placed at bit (i XOR 24) of the result; *)
(* crypto1_byte is 8 successive crypto1_bit calls fed bits 0..7 of in,     *)
(* output bit i at position i; the state ends 32 and 8 clocks on.          *)
C18_WordAndByteAreBitCalls ==
    /\ op = "crypto1_word" =>
           /\ s = BitCalls(pre, LAMBDA i : BITW(args.in, Xor24(i)), args.is_encrypted, 32)
           /\ \A i \in 0..31 :
                  BITW(res.ret, Xor24(i)) =
                      crypto1_bit(BitCalls(pre, LAMBDA j : BITW(args.in, Xor24(j)),
                                           args.is_encrypted, i),
                                  BITW(args.in, Xor24(i)), args.is_encrypted).ret
    /\ op = "crypto1_byte" =>
           /\ s = BitCalls(pre, LAMBDA i : BIT(args.in, i), args.is_encrypted, 8)
           /\ res.ret < 256
           /\ \A i \in 0..7 :
                  BIT(res.ret, i) =
                      crypto1_bit(BitCalls(pre, LAMBDA j : BIT(args.in, j),
                                           args.is_encrypted, i),
                                  BIT(args.in, i), args.is_encrypted).ret

(* a word call on a clocked state with an input and an output that are not *)
(* the same read from either end                                           *)
C18_Witness ==
    /\ op = "crypto1_word"
    /\ calls = 3
    /\ args.in = <<120, 86, 52, 18>>
    /\ args.is_encrypted = 1
    /\ res.ret # <<res.ret[4], res.ret[3], res.ret[2], res.ret[1]>>

(* C19: the table-driven filter of the byte-split engine and the bit-math  *)
(* filter of the packed engine give the same bit for the same register     *)
(* (the packed half being the byte-split half read from the other end);    *)
(* TableC3 and TableC7 give that bit in places 3 and 7, and TableC0[i] is  *)
(* bit i of 0xEC57E80A for all 32 indices.                                 *)
C19_FiltersAgree ==
    /\ op = "Crypto1FilterOutput" =>
           /\ res.ret = filter(s.odd)
           /\ CRYPTO1_FILTER_OUTPUT_B3_24(State.Odd) = 8 * res.ret
           /\ CRYPTO1_FILTER_OUTPUT_B7_24(State.Odd) = 128 * res.ret
    /\ op = "filter" =>
           res.ret = TableC0[FilterIndex(State.Odd)]
    /\ op # "none" =>
           \A i \in 0..31 : /\ TableC0[i] = BITW(<<10, 232, 87, 236>>, i)
                            /\ TableC3[i] = 8 * TableC0[i]
                            /\ TableC7[i] = 128 * TableC0[i]

(* the table-driven filter applied to a half whose three bytes differ and  *)
(* whose output is 1                                                       *)
C19_Witness ==
    /\ op = "Crypto1FilterOutput"
    /\ res.ret = 1
    /\ State.Odd[1] # State.Odd[2]
    /\ State.Odd[2] # State.Odd[3]
    /\ State.Odd[1] # State.Odd[3]

(* a byte with its bits 0..3 replaced by those of n *)
WithLowNibble(b, n) == (b - (b % 16)) + n

(* C20: the filter output depends on the 20 tapped bits only: filter(x) is *)
(* filter(x & 0xFFFFF) for every 32-bit x, and Crypto1FilterOutput is the  *)
(* same whatever bits 0..3 of Odd[0] and the bytes of Even are.            *)
C20_FilterReadsTwentyBits ==
    /\ op = "filter" =>
           res.ret = filter(<<args.x[1], args.x[2], args.x[3] % 16, 0>>)
    /\ op = "Crypto1FilterOutput" =>
           \A n \in 0..15, E \in EvenHalves :
               res.ret = Crypto1FilterOutput(
                             [Even |-> E,
                              Odd |-> <<WithLowNibble(pre.Odd[1], n), pre.Odd[2], pre.Odd[3]>>])

(* the packed filter applied to a word with bits 20 to 31 set and output 1 *)
C20_Witness ==
    /\ op = "filter"
    /\ args.x[4] = 255
    /\ args.x[3] \div 16 = 15
    /\ args.x[3] % 16 # 15
    /\ res.ret = 1

(* the original statement of C21: filter is 0 on the all-zero word and 0   *)
(* on the all-ones word                                                    *)
C21_FilterZeroAtBothEnds ==
    op = "filter" =>
        /\ args.x = <<0, 0, 0, 0>> => res.ret = 0
        /\ args.x = <<255, 255, 255, 255>> => res.ret = 0

(* C21, as amended: filter(0) = 0 and filter(0xFFFFFFFF) = 1.              *)
C21_FilterAtBothEnds ==
    op = "filter" =>
        /\ args.x = <<0, 0, 0, 0>> => res.ret = 0
        /\ args.x = <<255, 255, 255, 255>> => res.ret = 1

(* filter applied to the all-ones word, the byte-split register holding    *)
(* the same bits                                                           *)
C21_Witness ==
    /\ op = "filter"
    /\ args.x = <<255, 255, 255, 255>>
    /\ State.Odd = <<255, 255, 255>>

(* the single PRNG step on a byte-swapped word y, bit by bit: bit k of the *)
(* result is bit k+1 of y for k < 31, and bit 31 is bit 16 XOR bit 18 XOR  *)
(* bit 19 XOR bit 21 of y                                                  *)
SingleStepBit(y, k) ==
    IF k < 31 THEN BITW(y, k + 1)
    ELSE (BITW(y, 16) + BITW(y, 18) + BITW(y, 19) + BITW(y, 21)) % 2

SingleStepByte(y, j) ==
    SingleStepBit(y, 8 * j) + 2 * SingleStepBit(y, 8 * j + 1)
    + 4 * SingleStepBit(y, 8 * j + 2) + 8 * SingleStepBit(y, 8 * j + 3)
    + 16 * SingleStepBit(y, 8 * j + 4) + 32 * SingleStepBit(y, 8 * j + 5)
    + 64 * SingleStepBit(y, 8 * j + 6) + 128 * SingleStepBit(y, 8 * j + 7)

(* byte-swap, step, byte-swap back *)
SingleStep(x) ==
    Val(LAMBDA y : <<SingleStepByte(y, 3), SingleStepByte(y, 2),
                     SingleStepByte(y, 1), SingleStepByte(y, 0)>>,
        <<x[4], x[3], x[2], x[1]>>)

SingleSteps(x, n) == Loop(LAMBDA w, i : SingleStep(w), x, 0, n)

(* C22: prng_successor(x, n) and Crypto1FreePRNG(x, n) are both the n-fold *)
(* iteration of the single step, fast paths n = 1 and n = 16 included, and *)
(* successive calls with a and b steps give what one call with a + b steps *)
(* gives.                                                                  *)
C22_SuccessorIsIteratedStep ==
    op \in {"prng_successor", "Crypto1FreePRNG"} =>
        /\ res.ret = SingleSteps(args.x, args.n)
        /\ res.ret = prng_successor(args.x, args.n)
        /\ res.ret = Crypto1FreePRNG(args.x, args.n)
        /\ res.ret = prng_successor(pre.x, pre.n)
        /\ res.ret = Crypto1FreePRNG(pre.x, pre.n)

(* a call through the n = 16 branch after a call through the n = 1 branch, *)
(* 17 steps in all, which a single call takes through the general loop     *)
C22_Witness ==
    /\ op = "Crypto1FreePRNG"
    /\ args.n = 16
    /\ pre.n = 17
    /\ pre.x = <<4, 3, 2, 1>>
    /\ res.ret = <<94, 209, 130, 1>>

(* the original statement of C23: the successors of 0x01020304 after 1 and *)
(* 64 steps are 0x01020381 and 0x63B11474                                  *)
C23_VectorsAsStated ==
    (op \in {"prng_successor", "Crypto1FreePRNG"} /\ args.x = <<4, 3, 2, 1>>) =>
        /\ args.n = 1 => res.ret = <<129, 3, 2, 1>>
        /\ args.n = 64 => res.ret = <<116, 20, 177, 99>>

(* C23, as amended: prng_successor(0x01020304, 1) = 0x00810182 and         *)
(* prng_successor(0x01020304, 64) = 0x20F8ED56, and the same for           *)
(* Crypto1FreePRNG.                                                        *)
C23_Vectors ==
    (op \in {"prng_successor", "Crypto1FreePRNG"} /\ args.x = <<4, 3, 2, 1>>) =>
        /\ args.n = 1 => res.ret = <<130, 1, 129, 0>>
        /\ args.n = 64 => res.ret = <<86, 237, 248, 32>>

(* the 64th successor of 0x01020304 taken with prng_successor *)
C23_Witness ==
    /\ op = "prng_successor"
    /\ args.x = <<4, 3, 2, 1>>
    /\ args.n = 64
    /\ calls = 1

(* C28: Crypto1PRNG(State, c) advances the four bytes by 32 * floor(c/32)  *)
(* single PRNG steps, as prng_successor and Crypto1FreePRNG do with that   *)
(* count on the word whose most significant byte is State[0]; c < 32       *)
(* leaves State as it was and a remainder of c modulo 32 is dropped.       *)
C28_PrngAdvancesWholeRounds ==
    op = "Crypto1PRNG" =>
        /\ bswap32(res.State)
             = SingleSteps(bswap32(args.State), 32 * (args.ClockCount \div 32))
        /\ bswap32(res.State)
             = prng_successor(bswap32(args.State), 32 * (args.ClockCount \div 32))
        /\ bswap32(res.State)
             = Crypto1FreePRNG(bswap32(args.State), 32 * (args.ClockCount \div 32))
        /\ args.ClockCount < 32 => res.State = args.State

(* a call with ClockCount = 95, which advances 01 02 03 04 by 64 steps     *)
C28_Witness ==
    /\ op = "Crypto1PRNG"
    /\ args.ClockCount = 95
    /\ args.State = <<1, 2, 3, 4>>
    /\ res.State = <<32, 248, 237, 86>>

(* C24: rollback inverts the forward clock: lfsr_rollback_bit after        *)
(* crypto1_bit with the same bits in and fb restores the state and returns *)
(* the bit the forward clock emitted, and so do the byte and word lifts.   *)
C24_RollbackRestores ==
    /\ (op = "crypto1_bit" /\ args.in \in {0, 1}) =>
           lfsr_rollback_bit(s, args.in, args.is_encrypted) = [s |-> pre, ret |-> res.ret]
    /\ op = "crypto1_byte" =>
           lfsr_rollback_byte(s, args.in, args.is_encrypted) = [s |-> pre, ret |-> res.ret]
    /\ op = "crypto1_word" =>
           lfsr_rollback_word(s, args.in, args.is_encrypted) = [s |-> pre, ret |-> res.ret]


RECURSIVE MatchesFrom(_, _, _, _)
MatchesFrom(F, W, M, j) ==
    /\ BIT(F, j) = evenparity32(AND32(M, W32(65281)))
    /\ j > 0 => MatchesFrom(F, W, Val(LAMBDA m : prng_successor(m, IF j = W - 1 THEN 48 ELSE 8), M), j - 1)

(* C26: FOREACH_VALID_NONCE runs its body, with N = prng_successor(M, 16), *)
(* exactly for the seeds M, taken in increasing order, all of whose filter *)
(* bits match when M' is advanced by 48 steps after the check at index     *)
(* W - 1 and by 8 steps after every other check but the last.              *)
C26_BodyForMatchingSeeds ==
    /\ op = "body" => res.N = prng_successor(W32(res.n), 16)
    /\ op \in {"check", "body"} => res.n = pre.n + 1
    /\ pre.n >= 0 =>
           (pre.body <=> MatchesFrom(args.FILTER, args.FSIZE, W32(pre.n), args.FSIZE - 1))

(* a half of the byte-split State as a 24-bit number, byte 0 lowest *)
Half24(H) == H[1] + 256 * H[2] + 65536 * H[3]

(* parity of the bits of the 24-bit x that the 24-bit mask m selects *)
RECURSIVE MaskedParity(_, _, _)
MaskedParity(x, m, i) ==
    IF i = 24 THEN 0 ELSE (BIT(x, i) * BIT(m, i) + MaskedParity(x, m, i + 1)) % 2

(* the 24-bit x read from the other end *)
RECURSIVE Rev24(_, _)
Rev24(x, i) == IF i = 24 THEN 0 ELSE BIT(x, i) * 2 ^ (23 - i) + Rev24(x, i + 1)

(* C27: one Crypto1LFSR(In) step makes the old Odd half the new Even half, *)
(* and the new Odd half the old Even half shifted right by one with bit 23 *)
(* = In XOR parity((Even & 0x2010E1) XOR (Odd & 0x3A7394)) of the old      *)
(* halves; the two masks are the packed LF_POLY_EVEN and LF_POLY_ODD read  *)
(* from the other end of 24 bits.                                          *)
C27_LfsrStep ==
    op = "Crypto1LFSR" =>
        /\ State.Even = pre.Odd
        /\ Half24(State.Odd) =
               (Half24(pre.Even) \div 2)
               + 2 ^ 23 * ((args.In + MaskedParity(Half24(pre.Even), 2101473, 0)
                                    + MaskedParity(Half24(pre.Odd), 3830676, 0)) % 2)
        /\ Half24(LFSR_MASK_EVEN) = 2101473
        /\ Half24(LFSR_MASK_ODD) = 3830676
        /\ Rev24(Half24(LF_POLY_EVEN), 0) = 2101473
        /\ Rev24(Half24(LF_POLY_ODD), 0) = 3830676

(* a second step, with In = 1 and feedback parity 1, on halves that differ *)
C27_Witness ==
    /\ op = "Crypto1LFSR"
    /\ calls = 2
    /\ args.In = 1
    /\ (MaskedParity(Half24(pre.Even), 2101473, 0)
        + MaskedParity(Half24(pre.Odd), 3830676, 0)) % 2 = 1
    /\ Half24(State.Odd) < 2 ^ 23
    /\ pre.Even # pre.Odd
    /\ pre.Even[1] % 2 = 1

(* C29: Crypto1FilterOutput and Crypto1GetState leave State as it was;     *)
(* Crypto1FilterOutput returns 0 or 1, the bit 0 of the byte that          *)
(* Crypto1Byte returns when called next; Crypto1GetState stores the Even   *)
(* bytes through pEven and the Odd bytes through pOdd when the pointer is  *)
(* not NULL and leaves a NULL pointer alone.                               *)
C29_ReadersLeaveState ==
    /\ op = "Crypto1FilterOutput" =>
           /\ State = pre
           /\ res.ret \in {0, 1}
           /\ res.ret = BIT(Crypto1Byte(State).ret, 0)
    /\ op = "Crypto1GetState" =>
           /\ State = pre
           /\ res.pEven = IF args.pEven.null THEN NullPointer ELSE PointerTo(State.Even)
           /\ res.pOdd = IF args.pOdd.null THEN NullPointer ELSE PointerTo(State.Odd)

(* a Crypto1GetState call with pEven NULL and pOdd given, on a State whose *)
(* Odd bytes are neither the Even bytes nor what the buffer held           *)
C29_Witness ==
    /\ op = "Crypto1GetState"
    /\ args.pEven.null
    /\ ~args.pOdd.null
    /\ res.pOdd.bytes = State.Odd
    /\ State.Odd # State.Even
    /\ State.Odd # StaleHalf
    /\ Crypto1FilterOutput(State) = 1

(* what two calls of a bulk operation leave, the first on the first a      *)
(* bytes of Buffer from the State S, the second on the remaining bytes     *)
TwoCalls(Op(_, _, _, _), S, Buffer, a) ==
    Val(LAMBDA first :
            Val(LAMBDA second :
                    [State |-> second.State,
                     Buffer |-> first.Buffer \o second.Buffer,
                     Parity |-> first.Parity \o second.Parity],
                Op(first.State, SubSeq(Buffer, a + 1, Len(Buffer)),
                   StaleParity(Len(Buffer) - a), Len(Buffer) - a)),
        Op(S, SubSeq(Buffer, 1, a), StaleParity(a), a))

(* Crypto1ByteArray with the unused Parity argument of the other two *)
ByteArrayNoParity(S, Buffer, Parity, Count) ==
    Val(LAMBDA r : [State |-> r.State, Buffer |-> r.Buffer, Parity |-> Parity],
        Crypto1ByteArray(S, Buffer, Count))

(* C30: one call of Crypto1ByteArrayWithParity, of                         *)
(* Crypto1ByteArrayWithParityHasIn or of Crypto1ByteArray on a + b bytes   *)
(* leaves the output bytes, the parity bytes and the State that two calls, *)
(* on the first a bytes and on the remaining b bytes, leave.               *)
C30_BulkCallsCompose ==
    /\ op = "ByteArrayWithParity" =>
           \A a \in 0..args.Count :
               \A t \in { TwoCalls(Crypto1ByteArrayWithParity, pre, args.Buffer, a) } :
                   State = t.State /\ res.Buffer = t.Buffer /\ res.Parity = t.Parity
    /\ op = "ByteArrayWithParityHasIn" =>
           \A a \in 0..args.Count :
               \A t \in { TwoCalls(Crypto1ByteArrayWithParityHasIn, pre, args.Buffer, a) } :
                   State = t.State /\ res.Buffer = t.Buffer /\ res.Parity = t.Parity
    /\ op = "ByteArray" =>
           \A a \in 0..args.Count :
               \A t \in { TwoCalls(ByteArrayNoParity, pre, args.Buffer, a) } :
                   State = t.State /\ res.Buffer = t.Buffer
====
